---- MODULE Spec2Model ----
(***************************************************************************)
(* libsuspend: the autosuspend controller (autosuspend.c), the             *)
(* wakeup-count backend (autosuspend_wakeup_count.c) and the early-suspend *)
(* backend (autosuspend_earlysuspend.c) as one state machine.              *)
(*                                                                         *)
(* C strings are sequences of one-character strings; a C int status is an  *)
(* integer (0 success, -1 failure); a NULL pointer is the string "NULL".   *)
(***************************************************************************)
EXTENDS Integers, Sequences, FiniteSets, TLC

VARIABLES
    \* ---- the environment: system properties and kernel nodes
    prop_earlysuspend,      \* value of property "sleep.earlysuspend" (<<>> = unset)
    prop_sleep_state,       \* value of property "sleep.state" (<<>> = unset)
    power_state_node,       \* /sys/power/state can be opened
    power_state_read,       \* a read of /sys/power/state succeeds
    power_state_text,       \* the bytes a read of /sys/power/state returns
    fb_sleep_node,          \* /sys/power/wait_for_fb_sleep exists
    fb_wake_node,           \* /sys/power/wait_for_fb_wake exists
    wakeup_count_node,      \* /sys/power/wakeup_count can be opened
    uinput_node,            \* /dev/uinput can be opened
    power_buttons,          \* how many /dev/input/event* devices are named "Power Button"
    prop_doubleclick,       \* property "poweroff.doubleclick" as a boolean
    kcount,                 \* the kernel's wakeup counter
    k_req,                  \* last state the kernel accepted on /sys/power/state
    k_fb,                   \* the framebuffer: "awake" or "asleep"
    \* ---- autosuspend.c
    autosuspend_ops,        \* "NULL", "earlysuspend" or "wakeup_count"
    autosuspend_enabled,
    autosuspend_inited,
    sleep_state,            \* get_sleep_state's static buffer (<<>> = "")
    \* ---- autosuspend_wakeup_count.c
    uinput_fd,              \* -1 or the descriptor of the virtual input device
    powerbtnd_started,      \* the power-button thread was created
    suspend_lockout,        \* the semaphore's value
    wakeup_func,            \* "NULL" or the registered callback
    st,                     \* the suspend thread: [pc, wakeup_count, success]
    cyc,                    \* what the suspend thread did in its latest loop iteration, from
                            \* <<"arm", the callback registered then, "">> on
    pb,                     \* the power-button thread: [pc, cnt, timeout, longpress, doubleclick]
    pbl,                    \* what the power-button thread read and sent
    \* ---- autosuspend_earlysuspend.c
    earlysuspend_state,     \* "ON" or "MEM"
    wait_for_earlysuspend,
    es_pc,                  \* the early-suspend monitor thread
    \* ---- callers of the public interface
    active,                 \* the caller threads that exist
    caller,                 \* per caller: [pc, op, target, seen, becalls, beret, ret]
    \* ---- bookkeeping the properties read
    lockout,                \* a backend disable() consumed a permit no enable() has re-posted
    gs,                     \* get_sleep_state's calls: what they read and returned
    obs                     \* [first_cb, ignored, net, posted, threads]: the first callback
                            \* passed to set_wakeup_callback, whether a later one was turned
                            \* down, the backend's enable() posts less its disable()
                            \* permits, whether an enable() has posted yet, and how many
                            \* suspend threads pthread_create has started

\* what does not change while the process runs
env_cfg == <<prop_earlysuspend, power_state_read, fb_sleep_node, fb_wake_node,
             wakeup_count_node, uinput_node, power_buttons, prop_doubleclick>>
env_vars == <<env_cfg, prop_sleep_state, power_state_node, power_state_text,
              kcount, k_req, k_fb>>
ctl_vars == <<autosuspend_ops, autosuspend_enabled, autosuspend_inited, sleep_state>>
pb_vars == <<powerbtnd_started, pb, pbl>>
wc_vars == <<uinput_fd, pb_vars, suspend_lockout, wakeup_func, st, cyc>>
es_vars == <<earlysuspend_state, wait_for_earlysuspend, es_pc>>
call_vars == <<active, caller>>
ghost_vars == <<lockout, gs, obs>>
vars == <<env_vars, ctl_vars, wc_vars, es_vars, call_vars, ghost_vars>>

\* ------------------------------------------------------------------ bounds
\* The kernel counter advances at most this many times in a run.
MaxWakeups == 1
\* get_sleep_state's property reads and kernel probes are counted up to this.
MaxReads == 2
\* The power-button thread's poll returns at most this many times in a run.
MaxPolls == 4
\* /dev/input holds at most this many devices named "Power Button".
MaxButtons == 4

\* ----------------------------------------------------------------- strings
S_empty == <<>>
S_1 == <<"1">>
S_0 == <<"0">>
S_mem == <<"m", "e", "m">>
S_freeze == <<"f", "r", "e", "e", "z", "e">>
S_disk == <<"d", "i", "s", "k">>
\* /sys/power/state as the kernel prints it, with and without "mem"
T_freeze_mem == S_freeze \o <<" ">> \o S_mem \o <<"\n">>
T_freeze == S_freeze \o <<"\n">>

default_sleep_state == S_mem
fallback_sleep_state == S_freeze

\* strstr(hay, needle) != NULL, hay taken up to its terminating NUL
Strstr(hay, needle) ==
    \E i \in 1..Len(hay) :
        /\ i + Len(needle) - 1 <= Len(hay)
        /\ SubSeq(hay, i, i + Len(needle) - 1) = needle

\* property_get(key, value, default_value): what it leaves in value, the property
\* or, when the property is unset or empty, the default (S_empty for a NULL
\* default); its return value is the length of that string
PropertyGet(value, dflt) == IF Len(value) > 0 THEN value ELSE dflt

\* strncpy(dst, src, n) into a zeroed buffer
Strncpy(src, n) == IF Len(src) > n THEN SubSeq(src, 1, n) ELSE src

\* PROPERTY_VALUE_MAX, the size of get_sleep_state's buffer
PROPERTY_VALUE_MAX == 92

\* what may follow the bytes read into sleep_state_available's buf[64]: the
\* buffer is not initialised and read() writes no terminating NUL, so strstr
\* runs on into whatever the stack held (up to the first NUL byte there)
StackGarbage == {S_empty, <<"x">>, S_mem}

Digits == <<"0", "1", "2", "3", "4", "5", "6", "7", "8", "9">>
RECURSIVE ToDec(_)
ToDec(n) == IF n < 10 THEN <<Digits[n + 1]>> ELSE ToDec(n \div 10) \o <<Digits[(n % 10) + 1]>>
DigitVal(ch) == CHOOSE d \in 0..9 : Digits[d + 1] = ch
RECURSIVE FromDec(_, _)
FromDec(s, acc) ==
    IF s = <<>> \/ Head(s) \notin {Digits[i] : i \in 1..10} THEN acc
    ELSE FromDec(Tail(s), acc * 10 + DigitVal(Head(s)))

\* the kernel prints the counter into /sys/power/wakeup_count ...
KernelShowCount(n) == ToDec(n) \o <<"\n">>
\* ... and accepts a write iff the number written is still the counter
KernelAcceptsCount(token, count) == FromDec(token, 0) = count

\* ------------------------------------------------------- get_sleep_state
\* sleep_state_available(state), g the bytes after the read data
sleep_state_available(state, g) ==
    /\ power_state_node
    /\ Strstr((IF power_state_read THEN power_state_text ELSE S_empty) \o g, state)

\* get_sleep_state(): the buffer after the call (also the value returned)
get_sleep_state(g) ==
    IF Len(sleep_state) > 0 THEN sleep_state
    ELSE IF Len(PropertyGet(prop_sleep_state, S_empty)) > 0
         THEN PropertyGet(prop_sleep_state, S_empty)
    ELSE IF sleep_state_available(default_sleep_state, g)
         THEN Strncpy(default_sleep_state, PROPERTY_VALUE_MAX)
    ELSE Strncpy(fallback_sleep_state, PROPERTY_VALUE_MAX)

\* ------------------------------------------------------------- semaphore
\* sem_post adding two permits
SemPost_Two(s) == s + 2

SemPost(s) == s + 1
SemCanWait(s) == s > 0
SemWait(s) == s - 1

\* --------------------------------------------------------------- callers
AllCallers == {"c1", "c2"}
IdleCaller == [pc |-> "idle", op |-> "none", seen |-> FALSE, checked |-> FALSE,
               becalls |-> 0, beret |-> 0, ret |-> 0]
Return(c, r) == [caller EXCEPT ![c].pc = "idle", ![c].ret = r]
CondWaiters == {c \in AllCallers : caller[c].pc = "es_cond"}

\* a thread calls autosuspend_enable() or autosuspend_disable()
Call(c, op) ==
    /\ c \in active
    /\ caller[c].pc = "idle"
    /\ caller' = [caller EXCEPT ![c] = [IdleCaller EXCEPT !.pc = "init", !.op = op]]
    /\ UNCHANGED <<env_vars, ctl_vars, wc_vars, es_vars, active, ghost_vars>>

\* ------------------------------------------------------- autosuspend_init
EarlySuspendFlag == Head(PropertyGet(prop_earlysuspend, S_1)) = "1"

\* earlysuspend_init_ops failing when a wait_for_fb node is absent
earlysuspend_init_ops_NeedsFb ==
    IF power_state_node /\ power_state_read /\ fb_sleep_node /\ fb_wake_node
    THEN "earlysuspend" ELSE "NULL"

\* autosuspend_earlysuspend_init(): the ops it returns
earlysuspend_init_ops ==
    IF power_state_node /\ power_state_read THEN "earlysuspend" ELSE "NULL"

\* start_earlysuspend_thread without its two access() tests
start_earlysuspend_thread_NoAccessTest(created) == created

\* start_earlysuspend_thread() starts the monitor thread and sets wait_for_earlysuspend
start_earlysuspend_thread(created) == fb_sleep_node /\ fb_wake_node /\ created

\* autosuspend_wakeup_count_init(): the ops it returns
wakeup_count_init_ops(sem_ok, thr_ok) ==
    IF power_state_node /\ wakeup_count_node /\ sem_ok /\ thr_ok
    THEN "wakeup_count" ELSE "NULL"

\* what autosuspend_init's first probe leaves in autosuspend_ops
first_probe_ops == IF EarlySuspendFlag THEN earlysuspend_init_ops ELSE autosuspend_ops

\* autosuspend_init(): the backend it selects
autosuspend_init_ops(sem_ok, thr_ok) ==
    IF first_probe_ops # "NULL" THEN first_probe_ops
    ELSE wakeup_count_init_ops(sem_ok, thr_ok)

\* sem_init leaving one permit in the new semaphore
sem_init_OnePermit(value) == value + 1

\* sem_init(&suspend_lockout, 0, value): the semaphore's value
sem_init(value) == value

\* after_init with the failure of autosuspend_init not returned
after_init_ErrorSwallowed(c, ops) == [caller EXCEPT ![c].pc = "check"]

\* how autosuspend_enable / autosuspend_disable go on after autosuspend_init
after_init(c, ops) ==
    IF ops # "NULL" THEN [caller EXCEPT ![c].pc = "check"] ELSE Return(c, -1)

\* the power-button thread before pthread_create and as pthread_create starts it
NoPowerBtnd == [pc |-> "none", cnt |-> 0, timeout |-> -1, longpress |-> TRUE,
                doubleclick |-> FALSE]
\* the power-button thread starting with a window of one second open
NewPowerBtnd_WindowAtStart == [NoPowerBtnd EXCEPT !.pc = "open", !.timeout = 1000]
NewPowerBtnd == [NoPowerBtnd EXCEPT !.pc = "open"]

\* InitCheck probing the backends on every call
InitCheck_NoShortcut(c) ==
    /\ caller[c].pc = "init"
    /\ caller' = [caller EXCEPT ![c].pc = "init_run"]
    /\ UNCHANGED <<env_vars, ctl_vars, wc_vars, es_vars, active, ghost_vars>>

\* autosuspend_init, "if (autosuspend_inited) return 0"
InitCheck(c) ==
    /\ caller[c].pc = "init"
    /\ caller' = [caller EXCEPT ![c].pc = IF autosuspend_inited THEN "check" ELSE "init_run"]
    /\ UNCHANGED <<env_vars, ctl_vars, wc_vars, es_vars, active, ghost_vars>>

\* autosuspend_init, the probing of the backends
InitRun(c) ==
    /\ caller[c].pc = "init_run"
    /\ \E sem_ok \in BOOLEAN, thr_ok \in BOOLEAN, es_thr_ok \in BOOLEAN :
        LET ops == autosuspend_init_ops(sem_ok, thr_ok)
            ranEs == EarlySuspendFlag /\ earlysuspend_init_ops # "NULL"
            ranWc == first_probe_ops = "NULL"
            startEs == ranEs /\ start_earlysuspend_thread(es_thr_ok)
            semInit == ranWc /\ power_state_node /\ wakeup_count_node /\ sem_ok
        IN  \* start_earlysuspend_thread blocks in wait_for_fb_wake() first
            /\ (ranEs /\ fb_sleep_node /\ fb_wake_node) => k_fb = "awake"
            /\ autosuspend_ops' = ops
            /\ autosuspend_inited' = (autosuspend_inited \/ ops # "NULL")
            /\ es_pc' = IF startEs THEN "wait_sleep" ELSE es_pc
            /\ wait_for_earlysuspend' = (wait_for_earlysuspend \/ startEs)
            \* init_android_power_button()
            /\ uinput_fd' = IF ranWc /\ uinput_fd < 0 /\ uinput_node THEN 3 ELSE uinput_fd
            /\ powerbtnd_started' =
                   (powerbtnd_started \/ (ranWc /\ uinput_fd < 0 /\ uinput_node))
            /\ pb' = IF ranWc /\ uinput_fd < 0 /\ uinput_node THEN NewPowerBtnd ELSE pb
            /\ suspend_lockout' = IF semInit THEN sem_init(0) ELSE suspend_lockout
            \* pthread_create(&suspend_thread, ...): st follows the thread created first
            /\ st' = IF ranWc /\ ops = "wakeup_count" /\ st.pc = "none"
                     THEN [pc |-> "usleep", wakeup_count |-> S_empty, success |-> TRUE]
                     ELSE st
            /\ obs' = [obs EXCEPT !.threads =
                                      IF ranWc /\ ops = "wakeup_count" THEN @ + 1 ELSE @]
            /\ caller' = after_init(c, ops)
    /\ UNCHANGED <<env_vars, autosuspend_enabled, sleep_state, wakeup_func, cyc, pbl,
                   earlysuspend_state, active, lockout, gs>>

\* FlagCheck without the early return
FlagCheck_NoShortcut(c) ==
    /\ caller[c].pc = "check"
    /\ caller' = [caller EXCEPT ![c].pc = "backend",
                                ![c].seen = autosuspend_enabled, ![c].checked = TRUE]
    /\ UNCHANGED <<env_vars, ctl_vars, wc_vars, es_vars, active, ghost_vars>>

\* autosuspend_enable / autosuspend_disable, the test of autosuspend_enabled
FlagCheck(c) ==
    /\ caller[c].pc = "check"
    /\ caller' = IF autosuspend_enabled = (caller[c].op = "enable")
                 THEN [caller EXCEPT ![c].pc = "idle", ![c].ret = 0,
                                     ![c].seen = autosuspend_enabled, ![c].checked = TRUE]
                 ELSE [caller EXCEPT ![c].pc = "backend",
                                     ![c].seen = autosuspend_enabled, ![c].checked = TRUE]
    /\ UNCHANGED <<env_vars, ctl_vars, wc_vars, es_vars, active, ghost_vars>>

\* SetFlag returning 0 with autosuspend_enabled left as it was
SetFlag_NotSet(c) ==
    /\ caller[c].pc = "set"
    /\ autosuspend_enabled' = autosuspend_enabled
    /\ caller' = Return(c, 0)
    /\ UNCHANGED <<env_vars, autosuspend_ops, autosuspend_inited, sleep_state,
                   wc_vars, es_vars, active, ghost_vars>>

\* autosuspend_enable / autosuspend_disable after the backend returned 0
SetFlag(c) ==
    /\ caller[c].pc = "set"
    /\ autosuspend_enabled' = (caller[c].op = "enable")
    /\ caller' = Return(c, 0)
    /\ UNCHANGED <<env_vars, autosuspend_ops, autosuspend_inited, sleep_state,
                   wc_vars, es_vars, active, ghost_vars>>

\* ------------------------------------------- autosuspend_wakeup_count.c
\* autosuspend_wakeup_count_enable(): sem_post
WcEnable(c) ==
    /\ caller[c].pc = "backend"
    /\ autosuspend_ops = "wakeup_count"
    /\ caller[c].op = "enable"
    /\ suspend_lockout' = SemPost(suspend_lockout)
    /\ lockout' = FALSE
    /\ obs' = [obs EXCEPT !.net = @ + 1, !.posted = TRUE]
    /\ caller' = [caller EXCEPT ![c].pc = "set", ![c].beret = 0,
                                ![c].becalls = caller[c].becalls + 1]
    /\ UNCHANGED <<env_vars, ctl_vars, uinput_fd, pb_vars, wakeup_func, st, cyc,
                   es_vars, active, gs>>

\* autosuspend_wakeup_count_disable(): sem_wait returns 0 with a permit consumed
WcDisable(c) ==
    /\ caller[c].pc = "backend"
    /\ autosuspend_ops = "wakeup_count"
    /\ caller[c].op = "disable"
    /\ SemCanWait(suspend_lockout)
    /\ suspend_lockout' = SemWait(suspend_lockout)
    /\ lockout' = TRUE
    /\ obs' = [obs EXCEPT !.net = @ - 1]
    /\ caller' = [caller EXCEPT ![c].pc = "set", ![c].beret = 0,
                                ![c].becalls = caller[c].becalls + 1]
    /\ UNCHANGED <<env_vars, ctl_vars, uinput_fd, pb_vars, wakeup_func, st, cyc,
                   es_vars, active, gs>>

\* WcDisableIntr with the error of sem_wait dropped
WcDisableIntr_ErrorDropped(c) ==
    /\ caller[c].pc = "backend"
    /\ autosuspend_ops = "wakeup_count"
    /\ caller[c].op = "disable"
    /\ ~SemCanWait(suspend_lockout)
    /\ caller' = [caller EXCEPT ![c].pc = "set", ![c].beret = -1,
                                ![c].becalls = caller[c].becalls + 1]
    /\ UNCHANGED <<env_vars, ctl_vars, wc_vars, es_vars, active, ghost_vars>>

\* autosuspend_wakeup_count_disable(): the blocked sem_wait is interrupted (EINTR)
\* and returns -1, which autosuspend_disable returns to its caller
WcDisableIntr(c) ==
    /\ caller[c].pc = "backend"
    /\ autosuspend_ops = "wakeup_count"
    /\ caller[c].op = "disable"
    /\ ~SemCanWait(suspend_lockout)
    /\ caller' = [caller EXCEPT ![c].pc = "idle", ![c].beret = -1, ![c].ret = -1,
                                ![c].becalls = caller[c].becalls + 1]
    /\ UNCHANGED <<env_vars, ctl_vars, wc_vars, es_vars, active, ghost_vars>>

\* set_wakeup_callback replacing a registered callback
set_wakeup_callback_Replace(func) == func

\* set_wakeup_callback(func)
set_wakeup_callback(func) == IF wakeup_func # "NULL" THEN wakeup_func ELSE func

SetWakeupCallback(func) ==
    /\ wakeup_func' = set_wakeup_callback(func)
    /\ obs' = [obs EXCEPT !.first_cb = IF @ = "NULL" THEN func ELSE @,
                          !.ignored = @ \/ (wakeup_func # "NULL" /\ func # wakeup_func)]
    /\ UNCHANGED <<env_vars, ctl_vars, uinput_fd, pb_vars, suspend_lockout, st, cyc,
                   es_vars, call_vars, lockout, gs>>

\* emit_key(ufd, key_code, val): the events that reach the device (none on a bad fd)
emit_key(ufd, key_code, val) == IF ufd >= 0 THEN << <<"key", key_code, val>> >> ELSE <<>>

\* send_key_wakeup(ufd)
send_key_wakeup(ufd) == emit_key(ufd, "KEY_WAKEUP", "1") \o emit_key(ufd, "KEY_WAKEUP", "0")

BoolStr(b) == IF b THEN "true" ELSE "false"

\* the call of the registered callback, lines 239-242
invoke_callback(func, success) ==
    IF func # "NULL" THEN << <<"callback", func, BoolStr(success)>> >> ELSE <<>>

\* suspend_thread_func: the top of the loop, usleep(100000)
Delay ==
    /\ st.pc = "usleep"
    /\ st' = [st EXCEPT !.pc = "read"]
    /\ cyc' = <<>>
    /\ UNCHANGED <<env_vars, ctl_vars, uinput_fd, pb_vars, suspend_lockout,
                   wakeup_func, es_vars, call_vars, ghost_vars>>

\* after_arm with the result of the read not looked at
after_arm_Ignored(res) == "sem_wait"

\* where the thread goes after the read of wakeup_count returned
after_arm(res) == IF res = "ok" THEN "sem_wait" ELSE "usleep"

\* suspend_thread_func: lseek and the read of wakeup_count (arm); a failed or
\* empty read is "continue"
ArmRead ==
    /\ st.pc = "read"
    /\ \E res \in {"error", "empty", "ok"} :
        /\ st' = [st EXCEPT !.pc = after_arm(res),
                            !.wakeup_count = IF res = "ok" THEN KernelShowCount(kcount) ELSE @]
        /\ cyc' = IF res = "ok" THEN << <<"arm", wakeup_func, "">> >>
                  ELSE << <<"arm_failed", res, "">> >>
    /\ UNCHANGED <<env_vars, ctl_vars, uinput_fd, pb_vars, suspend_lockout,
                   wakeup_func, es_vars, call_vars, ghost_vars>>

\* GateWait with the sem_wait left out
GateWait_NoGate ==
    /\ st.pc = "sem_wait"
    /\ st' = [st EXCEPT !.pc = "commit"]
    /\ UNCHANGED <<env_vars, ctl_vars, uinput_fd, pb_vars, suspend_lockout,
                   wakeup_func, cyc, es_vars, call_vars, ghost_vars>>

\* suspend_thread_func: sem_wait (gate)
GateWait ==
    /\ st.pc = "sem_wait"
    /\ SemCanWait(suspend_lockout)
    /\ suspend_lockout' = SemWait(suspend_lockout)
    /\ st' = [st EXCEPT !.pc = "commit"]
    /\ UNCHANGED <<env_vars, ctl_vars, uinput_fd, pb_vars, wakeup_func, cyc,
                   es_vars, call_vars, ghost_vars>>

\* GateIntr going back to the read without the delay
GateIntr_NoDelay ==
    /\ st.pc = "sem_wait"
    /\ ~SemCanWait(suspend_lockout)
    /\ st' = [st EXCEPT !.pc = "read"]
    /\ UNCHANGED <<env_vars, ctl_vars, uinput_fd, pb_vars, suspend_lockout,
                   wakeup_func, cyc, es_vars, call_vars, ghost_vars>>

\* suspend_thread_func: the blocked sem_wait fails (EINTR), "continue"
GateIntr ==
    /\ st.pc = "sem_wait"
    /\ ~SemCanWait(suspend_lockout)
    /\ st' = [st EXCEPT !.pc = "usleep"]
    /\ UNCHANGED <<env_vars, ctl_vars, uinput_fd, pb_vars, suspend_lockout,
                   wakeup_func, cyc, es_vars, call_vars, ghost_vars>>

\* after_commit never going on to the sleep-state write
after_commit_NeverSuspends(accepted) == "sem_post"

\* after_commit with the result of the write ignored
after_commit_Ignored(accepted) == "state_write"

\* where the thread goes after the write to wakeup_count returned
after_commit(accepted) == IF accepted THEN "state_write" ELSE "sem_post"

\* Commit with the callback told of a rejected commit
Commit_CallbackOnReject ==
    /\ st.pc = "commit"
    /\ LET accepted == KernelAcceptsCount(st.wakeup_count, kcount)
       IN /\ st' = [st EXCEPT !.pc = after_commit(accepted), !.success = accepted]
          /\ cyc' = Append(cyc, <<"commit", IF accepted THEN "ok" ELSE "rejected", "">>)
                    \o (IF accepted THEN <<>> ELSE invoke_callback(wakeup_func, FALSE))
    /\ UNCHANGED <<env_vars, ctl_vars, uinput_fd, pb_vars, suspend_lockout,
                   wakeup_func, es_vars, call_vars, ghost_vars>>

\* suspend_thread_func: the write of the token to wakeup_count (commit)
Commit ==
    /\ st.pc = "commit"
    /\ LET accepted == KernelAcceptsCount(st.wakeup_count, kcount)
       IN /\ st' = [st EXCEPT !.pc = after_commit(accepted), !.success = TRUE]
          /\ cyc' = Append(cyc, <<"commit", IF accepted THEN "ok" ELSE "rejected", "">>)
    /\ UNCHANGED <<env_vars, ctl_vars, uinput_fd, pb_vars, suspend_lockout,
                   wakeup_func, es_vars, call_vars, ghost_vars>>

\* suspend_thread_func: get_sleep_state() and the call of write(state_fd, ...),
\* which blocks while the device is suspended
StateWrite ==
    /\ st.pc = "state_write"
    /\ \E g \in StackGarbage : sleep_state' = get_sleep_state(g)
    /\ st' = [st EXCEPT !.pc = "in_state_write"]
    /\ cyc' = Append(cyc, <<"state_write", "begin", "">>)
    /\ UNCHANGED <<env_vars, autosuspend_ops, autosuspend_enabled, autosuspend_inited,
                   uinput_fd, pb_vars, suspend_lockout, wakeup_func,
                   es_vars, call_vars, ghost_vars>>

\* after_state_write sending the wakeup key whether the write failed or not
after_state_write_KeyOnFailure(ok, ufd, func) ==
    << <<"state_write", IF ok THEN "ok" ELSE "failed", "">> >>
    \o send_key_wakeup(ufd)
    \o invoke_callback(func, ok)

\* after_state_write with the callback called before the key is sent
after_state_write_CallbackFirst(ok, ufd, func) ==
    << <<"state_write", IF ok THEN "ok" ELSE "failed", "">> >>
    \o invoke_callback(func, ok)
    \o (IF ok THEN send_key_wakeup(ufd) ELSE <<>>)

\* what the thread does once write(state_fd, ...) returned, lines 234-242
after_state_write(ok, ufd, func) ==
    << <<"state_write", IF ok THEN "ok" ELSE "failed", "">> >>
    \o (IF ok THEN send_key_wakeup(ufd) ELSE <<>>)
    \o invoke_callback(func, ok)

\* suspend_thread_func: write(state_fd, ...) returns (resume, or a failed write)
StateWriteReturn ==
    /\ st.pc = "in_state_write"
    /\ \E ok \in BOOLEAN :
        /\ st' = [st EXCEPT !.pc = "sem_post", !.success = ok]
        /\ cyc' = cyc \o after_state_write(ok, uinput_fd, wakeup_func)
    /\ UNCHANGED <<env_vars, ctl_vars, uinput_fd, pb_vars, suspend_lockout,
                   wakeup_func, es_vars, call_vars, ghost_vars>>

\* Release posting the permit a second time
Release_PostTwice ==
    /\ st.pc = "sem_post"
    /\ suspend_lockout' = SemPost(SemPost(suspend_lockout))
    /\ st' = [st EXCEPT !.pc = "usleep"]
    /\ cyc' = Append(Append(cyc, <<"sem_post", "", "">>), <<"sem_post", "", "">>)
    /\ UNCHANGED <<env_vars, ctl_vars, uinput_fd, pb_vars, wakeup_func,
                   es_vars, call_vars, ghost_vars>>

\* Release with the sem_post forgotten after a failed write
Release_NoPostOnFailure ==
    /\ st.pc = "sem_post"
    /\ suspend_lockout' = IF st.success THEN SemPost(suspend_lockout) ELSE suspend_lockout
    /\ st' = [st EXCEPT !.pc = "usleep"]
    /\ cyc' = Append(cyc, <<"sem_post", "", "">>)
    /\ UNCHANGED <<env_vars, ctl_vars, uinput_fd, pb_vars, wakeup_func,
                   es_vars, call_vars, ghost_vars>>

\* suspend_thread_func: sem_post (release)
Release ==
    /\ st.pc = "sem_post"
    /\ suspend_lockout' = SemPost(suspend_lockout)
    /\ st' = [st EXCEPT !.pc = "usleep"]
    /\ cyc' = Append(cyc, <<"sem_post", "", "">>)
    /\ UNCHANGED <<env_vars, ctl_vars, uinput_fd, pb_vars, wakeup_func,
                   es_vars, call_vars, ghost_vars>>

\* ------------------------------------------------- the power-button thread
MAX_POWERBTNS == 3

\* openfds(pfds): how many devices named "Power Button" it opened
openfds(n) == IF n < MAX_POWERBTNS THEN n ELSE MAX_POWERBTNS

\* pb_loop entering the loop whatever cnt is
pb_loop_NoCntTest(cnt) == "poll"

\* where powerbtnd_thread_func stands after a test of its while condition
pb_loop(cnt) == IF cnt > 0 THEN "poll" ELSE "exited"

\* powerbtnd_thread_func up to the first test of "cnt > 0": the property is read,
\* the devices are scanned once
PbOpen ==
    /\ pb.pc = "open"
    /\ pb' = [pb EXCEPT !.doubleclick = prop_doubleclick,
                        !.cnt = openfds(power_buttons),
                        !.pc = pb_loop(openfds(power_buttons))]
    /\ UNCHANGED <<env_vars, ctl_vars, uinput_fd, powerbtnd_started, pbl, suspend_lockout,
                   wakeup_func, st, cyc, es_vars, call_vars, ghost_vars>>

\* send_key_power holding the key down whatever it is told
send_key_power_AlwaysLong(ufd, longpress) ==
    emit_key(ufd, "KEY_POWER", "1") \o << <<"sleep", "2", "">> >>
    \o emit_key(ufd, "KEY_POWER", "0")

\* send_key_power never holding the key down
send_key_power_AlwaysShort(ufd, longpress) ==
    emit_key(ufd, "KEY_POWER", "1") \o emit_key(ufd, "KEY_POWER", "0")

\* send_key_power(ufd, longpress): press, two seconds' sleep for a long press, release
send_key_power(ufd, longpress) ==
    emit_key(ufd, "KEY_POWER", "1")
    \o (IF longpress THEN << <<"sleep", "2", "">> >> ELSE <<>>)
    \o emit_key(ufd, "KEY_POWER", "0")

\* the returns of poll the log holds
IsPoll(e) == e[1] \in {"in", "timeout"}
Polls(log) == Len(SelectSeq(log, IsPoll))

\* what a read of a power-button device returns: less than an event, the
\* release or the press of KEY_POWER, a SYN_REPORT with a value (a resume), a
\* SYN_REPORT with value 0, anything else
PbInputs == {"short_read", "power_release", "power_press", "resume", "syn", "other"}

\* PbRead sending the key on every release, double-click mode or not
PbRead_NoWindow(ev) ==
    /\ pb.pc = "poll"
    /\ Polls(pbl) < MaxPolls
    /\ LET sends == ev = "power_release"
       IN /\ pb' = [pb EXCEPT
                       !.timeout = IF ev = "power_release" THEN (IF sends THEN -1 ELSE 1000)
                                   ELSE IF ev = "resume" THEN 1000 ELSE @,
                       !.longpress = IF ev = "resume" THEN FALSE ELSE @]
          /\ pbl' = Append(pbl, <<"in", ev, "">>)
                    \o (IF sends THEN send_key_power(uinput_fd, pb.longpress) ELSE <<>>)
    /\ UNCHANGED <<env_vars, ctl_vars, uinput_fd, powerbtnd_started, suspend_lockout,
                   wakeup_func, st, cyc, es_vars, call_vars, ghost_vars>>

\* PbRead leaving the long-press flag as it is on a resume event
PbRead_ResumeKeepsFlag(ev) ==
    /\ pb.pc = "poll"
    /\ Polls(pbl) < MaxPolls
    /\ LET sends == ev = "power_release" /\ (~pb.doubleclick \/ pb.timeout > 0)
       IN /\ pb' = [pb EXCEPT
                       !.timeout = IF ev = "power_release" THEN (IF sends THEN -1 ELSE 1000)
                                   ELSE IF ev = "resume" THEN 1000 ELSE @]
          /\ pbl' = Append(pbl, <<"in", ev, "">>)
                    \o (IF sends THEN send_key_power(uinput_fd, pb.longpress) ELSE <<>>)
    /\ UNCHANGED <<env_vars, ctl_vars, uinput_fd, powerbtnd_started, suspend_lockout,
                   wakeup_func, st, cyc, es_vars, call_vars, ghost_vars>>

\* PbRead clearing the long-press flag whenever a release sends a key
PbRead_ClearsLongpress(ev) ==
    /\ pb.pc = "poll"
    /\ Polls(pbl) < MaxPolls
    /\ LET sends == ev = "power_release" /\ (~pb.doubleclick \/ pb.timeout > 0)
       IN /\ pb' = [pb EXCEPT
                       !.timeout = IF ev = "power_release" THEN (IF sends THEN -1 ELSE 1000)
                                   ELSE IF ev = "resume" THEN 1000 ELSE @,
                       !.longpress = IF ev = "resume" \/ sends THEN FALSE ELSE @]
          /\ pbl' = Append(pbl, <<"in", ev, "">>)
                    \o (IF sends THEN send_key_power(uinput_fd, pb.longpress) ELSE <<>>)
    /\ UNCHANGED <<env_vars, ctl_vars, uinput_fd, powerbtnd_started, suspend_lockout,
                   wakeup_func, st, cyc, es_vars, call_vars, ghost_vars>>

\* powerbtnd_thread_func: poll returns with an event, which is read and handled
PbRead(ev) ==
    /\ pb.pc = "poll"
    /\ Polls(pbl) < MaxPolls
    /\ LET sends == ev = "power_release" /\ (~pb.doubleclick \/ pb.timeout > 0)
       IN /\ pb' = [pb EXCEPT
                       !.timeout = IF ev = "power_release" THEN (IF sends THEN -1 ELSE 1000)
                                   ELSE IF ev = "resume" THEN 1000 ELSE @,
                       !.longpress = IF ev = "resume" THEN FALSE ELSE @]
          /\ pbl' = Append(pbl, <<"in", ev, "">>)
                    \o (IF sends THEN send_key_power(uinput_fd, pb.longpress) ELSE <<>>)
    /\ UNCHANGED <<env_vars, ctl_vars, uinput_fd, powerbtnd_started, suspend_lockout,
                   wakeup_func, st, cyc, es_vars, call_vars, ghost_vars>>

\* PbTimeout leaving the window open
PbTimeout_KeepsWindow ==
    /\ pb.pc = "poll"
    /\ pb.timeout > 0
    /\ Polls(pbl) < MaxPolls
    /\ pb' = [pb EXCEPT !.longpress = TRUE]
    /\ pbl' = Append(pbl, <<"timeout", "", "">>) \o send_key_power(uinput_fd, FALSE)
    /\ UNCHANGED <<env_vars, ctl_vars, uinput_fd, powerbtnd_started, suspend_lockout,
                   wakeup_func, st, cyc, es_vars, call_vars, ghost_vars>>

\* PbTimeout sending the press the way a release does
PbTimeout_LongPress ==
    /\ pb.pc = "poll"
    /\ pb.timeout > 0
    /\ Polls(pbl) < MaxPolls
    /\ pb' = [pb EXCEPT !.timeout = -1, !.longpress = TRUE]
    /\ pbl' = Append(pbl, <<"timeout", "", "">>) \o send_key_power(uinput_fd, pb.longpress)
    /\ UNCHANGED <<env_vars, ctl_vars, uinput_fd, powerbtnd_started, suspend_lockout,
                   wakeup_func, st, cyc, es_vars, call_vars, ghost_vars>>

\* powerbtnd_thread_func: poll returns 0, the window of one second has passed
PbTimeout ==
    /\ pb.pc = "poll"
    /\ pb.timeout > 0
    /\ Polls(pbl) < MaxPolls
    /\ pb' = [pb EXCEPT !.timeout = -1, !.longpress = TRUE]
    /\ pbl' = Append(pbl, <<"timeout", "", "">>) \o send_key_power(uinput_fd, FALSE)
    /\ UNCHANGED <<env_vars, ctl_vars, uinput_fd, powerbtnd_started, suspend_lockout,
                   wakeup_func, st, cyc, es_vars, call_vars, ghost_vars>>

\* powerbtnd_thread_func: poll fails and the thread returns
PbPollError ==
    /\ pb.pc = "poll"
    /\ pb' = [pb EXCEPT !.pc = "exited"]
    /\ UNCHANGED <<env_vars, ctl_vars, uinput_fd, powerbtnd_started, pbl, suspend_lockout,
                   wakeup_func, st, cyc, es_vars, call_vars, ghost_vars>>

\* the kernel records a wakeup event
BootCount == 9
Wakeup ==
    /\ kcount < BootCount + MaxWakeups
    /\ kcount' = kcount + 1
    /\ UNCHANGED <<env_cfg, prop_sleep_state, power_state_node, power_state_text,
                   k_req, k_fb,
                   ctl_vars, wc_vars, es_vars, call_vars, ghost_vars>>

\* ------------------------------------------- autosuspend_earlysuspend.c
\* where an enable()/disable() goes after its write: the wait loop, or straight back
after_es_write == IF wait_for_earlysuspend THEN "es_wait" ELSE "set"

\* EsEnable going on to the wait loop although its write failed
EsEnable_WaitsAfterFailure(c) ==
    /\ caller[c].pc = "backend"
    /\ autosuspend_ops = "earlysuspend"
    /\ caller[c].op = "enable"
    /\ \E g \in StackGarbage : sleep_state' = get_sleep_state(g)
    /\ \E wrote \in BOOLEAN :
        /\ k_req' = IF wrote THEN "sleep" ELSE k_req
        /\ caller' = [caller EXCEPT ![c].pc = after_es_write,
                                    ![c].beret = IF wrote THEN 0 ELSE -1,
                                    ![c].becalls = caller[c].becalls + 1]
    /\ UNCHANGED <<env_cfg, prop_sleep_state, power_state_node, power_state_text,
                   kcount, k_fb,
                   autosuspend_ops, autosuspend_enabled, autosuspend_inited,
                   wc_vars, es_vars, active, ghost_vars>>

\* autosuspend_earlysuspend_enable(): get_sleep_state() and the write of the state
EsEnable(c) ==
    /\ caller[c].pc = "backend"
    /\ autosuspend_ops = "earlysuspend"
    /\ caller[c].op = "enable"
    /\ \E g \in StackGarbage : sleep_state' = get_sleep_state(g)
    /\ \E wrote \in BOOLEAN :
        IF wrote
        THEN /\ k_req' = "sleep"
             /\ caller' = [caller EXCEPT ![c].pc = after_es_write, ![c].beret = 0,
                                         ![c].becalls = caller[c].becalls + 1]
        ELSE /\ k_req' = k_req
             /\ caller' = [caller EXCEPT ![c].pc = "idle", ![c].beret = -1, ![c].ret = -1,
                                         ![c].becalls = caller[c].becalls + 1]
    /\ UNCHANGED <<env_cfg, prop_sleep_state, power_state_node, power_state_text,
                   kcount, k_fb,
                   autosuspend_ops, autosuspend_enabled, autosuspend_inited,
                   wc_vars, es_vars, active, ghost_vars>>

\* EsDisable returning the error of its write
EsDisable_ReturnsError(c) ==
    /\ caller[c].pc = "backend"
    /\ autosuspend_ops = "earlysuspend"
    /\ caller[c].op = "disable"
    /\ \E wrote \in BOOLEAN :
        IF wrote
        THEN /\ k_req' = "on"
             /\ caller' = [caller EXCEPT ![c].pc = after_es_write, ![c].beret = 0,
                                         ![c].becalls = caller[c].becalls + 1]
        ELSE /\ k_req' = k_req
             /\ caller' = [caller EXCEPT ![c].pc = "idle", ![c].beret = -1, ![c].ret = -1,
                                         ![c].becalls = caller[c].becalls + 1]
    /\ UNCHANGED <<env_cfg, prop_sleep_state, power_state_node, power_state_text,
                   kcount, k_fb,
                   ctl_vars, wc_vars, es_vars, active, ghost_vars>>

\* autosuspend_earlysuspend_disable(): the write of "on"; a failed write is ignored
EsDisable(c) ==
    /\ caller[c].pc = "backend"
    /\ autosuspend_ops = "earlysuspend"
    /\ caller[c].op = "disable"
    /\ \E wrote \in BOOLEAN : k_req' = IF wrote THEN "on" ELSE k_req
    /\ caller' = [caller EXCEPT ![c].pc = after_es_write, ![c].beret = 0,
                                ![c].becalls = caller[c].becalls + 1]
    /\ UNCHANGED <<env_cfg, prop_sleep_state, power_state_node, power_state_text,
                   kcount, k_fb,
                   ctl_vars, wc_vars, es_vars, active, ghost_vars>>

\* the state an enable() / a disable() waits for
es_target(op) == IF op = "enable" THEN "MEM" ELSE "ON"

\* EsWait testing the state once with "if" and going on whatever it is
EsWait_NoLoop(c) ==
    /\ caller[c].pc = "es_wait"
    /\ caller' = [caller EXCEPT ![c].pc = "set"]
    /\ UNCHANGED <<env_vars, ctl_vars, wc_vars, es_vars, active, ghost_vars>>

\* enable()/disable(): the test of earlysuspend_state under the mutex
EsWait(c) ==
    /\ caller[c].pc = "es_wait"
    /\ caller' = [caller EXCEPT ![c].pc =
                     IF earlysuspend_state # es_target(caller[c].op) THEN "es_cond" ELSE "set"]
    /\ UNCHANGED <<env_vars, ctl_vars, wc_vars, es_vars, active, ghost_vars>>

\* pthread_cond_wait returns without a signal (POSIX allows a spurious wakeup)
EsSpuriousWake(c) ==
    /\ caller[c].pc = "es_cond"
    /\ caller' = [caller EXCEPT ![c].pc = "es_wait"]
    /\ UNCHANGED <<env_vars, ctl_vars, wc_vars, es_vars, active, ghost_vars>>

\* pthread_cond_signal: one of the waiting callers, if any, leaves pthread_cond_wait
CondSignal ==
    IF CondWaiters = {} THEN caller' = caller
    ELSE \E w \in CondWaiters : caller' = [caller EXCEPT ![w].pc = "es_wait"]

\* earlysuspend_thread_func: a blocking read of a wait_for_fb node returns
EsRead ==
    /\ \/ es_pc = "wait_sleep" /\ k_fb = "asleep" /\ es_pc' = "set_mem"
       \/ es_pc = "wait_wake" /\ k_fb = "awake" /\ es_pc' = "set_on"
    /\ UNCHANGED <<env_vars, ctl_vars, wc_vars, earlysuspend_state, wait_for_earlysuspend,
                   call_vars, ghost_vars>>

\* EsReadFail putting earlysuspend_state back to ON as the thread returns
EsReadFail_ResetsState ==
    /\ es_pc \in {"wait_sleep", "wait_wake"}
    /\ es_pc' = "exited"
    /\ earlysuspend_state' = "ON"
    /\ UNCHANGED <<env_vars, ctl_vars, wc_vars, wait_for_earlysuspend,
                   call_vars, ghost_vars>>

\* earlysuspend_thread_func: a blocking read fails and the thread returns
EsReadFail ==
    /\ es_pc \in {"wait_sleep", "wait_wake"}
    /\ es_pc' = "exited"
    /\ UNCHANGED <<env_vars, ctl_vars, wc_vars, earlysuspend_state, wait_for_earlysuspend,
                   call_vars, ghost_vars>>

\* EsSet going back to wait_for_fb_sleep after it set MEM, with no wait for the wake
EsSet_NoWakeWait ==
    /\ \/ es_pc = "set_mem" /\ earlysuspend_state' = "MEM" /\ es_pc' = "wait_sleep"
       \/ es_pc = "set_on" /\ earlysuspend_state' = "ON" /\ es_pc' = "wait_sleep"
    /\ CondSignal
    /\ UNCHANGED <<env_vars, ctl_vars, wc_vars, wait_for_earlysuspend, active, ghost_vars>>

\* earlysuspend_thread_func: lock, set earlysuspend_state, signal, unlock
EsSet ==
    /\ \/ es_pc = "set_mem" /\ earlysuspend_state' = "MEM" /\ es_pc' = "wait_wake"
       \/ es_pc = "set_on" /\ earlysuspend_state' = "ON" /\ es_pc' = "wait_sleep"
    /\ CondSignal
    /\ UNCHANGED <<env_vars, ctl_vars, wc_vars, wait_for_earlysuspend, active, ghost_vars>>

\* the kernel's early suspend follows the state last written to /sys/power/state
KernelFb ==
    /\ \/ k_req = "sleep" /\ k_fb = "awake" /\ k_fb' = "asleep"
       \/ k_req = "on" /\ k_fb = "asleep" /\ k_fb' = "awake"
    /\ UNCHANGED <<env_cfg, prop_sleep_state, power_state_node, power_state_text,
                   kcount, k_req,
                   ctl_vars, wc_vars, es_vars, call_vars, ghost_vars>>

\* ------------------------------------------------------------ the program
\* the statics of the three files as the loader leaves them
StaticsInit ==
    /\ autosuspend_ops = "NULL"
    /\ autosuspend_enabled = FALSE
    /\ autosuspend_inited = FALSE
    /\ sleep_state = S_empty
    /\ suspend_lockout = 0
    /\ wakeup_func = "NULL"
    /\ st = [pc |-> "none", wakeup_count |-> S_empty, success |-> TRUE]
    /\ cyc = <<>>
    /\ earlysuspend_state = "ON"
    /\ wait_for_earlysuspend = FALSE
    /\ es_pc = "none"
    /\ caller = [c \in AllCallers |-> IdleCaller]
    /\ lockout = FALSE
    /\ gs = [props |-> 0, probes |-> 0, resolved |-> FALSE, again |-> FALSE,
             first |-> S_empty, last |-> S_empty, props0 |-> 0, probes0 |-> 0,
             prop0 |-> S_empty, node0 |-> FALSE, text0 |-> S_empty, prop1 |-> S_empty]
    /\ pbl = <<>>
    /\ obs = [first_cb |-> "NULL", ignored |-> FALSE, net |-> 0, posted |-> FALSE,
              threads |-> 0]

ProgramInit ==
    /\ StaticsInit
    /\ uinput_fd = -1
    /\ powerbtnd_started = FALSE
    /\ pb = NoPowerBtnd

KernelInit ==
    /\ kcount = BootCount
    /\ k_req = "on"
    /\ k_fb = "awake"

\* one thread calls enable()/disable(), one call after the other, on a device in
\* any configuration that has no input device named "Power Button"
Init ==
    /\ prop_earlysuspend \in {S_empty, S_1, S_0}
    /\ prop_sleep_state = S_empty
    /\ power_state_node \in BOOLEAN
    /\ power_state_read \in BOOLEAN
    /\ power_buttons = 0
    /\ prop_doubleclick = FALSE
    /\ power_state_text = T_freeze_mem
    /\ fb_sleep_node \in BOOLEAN
    /\ fb_wake_node \in BOOLEAN
    \* the wait_for_fb nodes are looked at only once early suspend is selected
    /\ (fb_sleep_node /\ fb_wake_node)
       \/ (EarlySuspendFlag /\ power_state_node /\ power_state_read)
    /\ wakeup_count_node \in BOOLEAN
    /\ uinput_node \in BOOLEAN
    /\ KernelInit
    /\ ProgramInit
    /\ active = {"c1"}

Controller(c) ==
    \/ \E op \in {"enable", "disable"} : Call(c, op)
    \/ InitCheck(c)
    \/ InitRun(c)
    \/ FlagCheck(c)
    \/ SetFlag(c)

WakeupCountBackend(c) ==
    \/ WcEnable(c)
    \/ WcDisable(c)
    \/ WcDisableIntr(c)

EarlySuspendBackend(c) ==
    \/ EsEnable(c)
    \/ EsDisable(c)
    \/ EsWait(c)
    \/ EsSpuriousWake(c)

SuspendThread ==
    \/ Delay
    \/ ArmRead
    \/ GateWait
    \/ GateIntr
    \/ Commit
    \/ StateWrite
    \/ StateWriteReturn
    \/ Release

EarlySuspendThread ==
    \/ EsRead
    \/ EsReadFail
    \/ EsSet

Next ==
    \/ \E c \in AllCallers : Controller(c) \/ WakeupCountBackend(c) \/ EarlySuspendBackend(c)
    \/ \E func \in {"cbA", "cbB"} : SetWakeupCallback(func)
    \/ SuspendThread
    \/ PbOpen
    \/ EarlySuspendThread
    \/ Wakeup
    \/ KernelFb

Spec == Init /\ [][Next]_vars

\* ------------------------------------- get_sleep_state, statement by statement
\* a thread calls get_sleep_state(); the first call notes what the device looks like
GsCall(c) ==
    /\ c \in active
    /\ caller[c].pc = "idle"
    /\ caller' = [caller EXCEPT ![c] = [IdleCaller EXCEPT !.pc = "gs_check",
                                                         !.op = "get_sleep_state"]]
    /\ gs' = IF gs.resolved THEN [gs EXCEPT !.prop1 = prop_sleep_state]
             ELSE [gs EXCEPT !.prop0 = prop_sleep_state, !.node0 = power_state_node,
                             !.text0 = power_state_text]
    /\ UNCHANGED <<env_vars, ctl_vars, wc_vars, es_vars, active, lockout, obs>>

\* the call returns sleep_state; g0 is the bookkeeping with this call's reads counted
GsReturn(c, g0) ==
    /\ caller' = [caller EXCEPT ![c].pc = "idle"]
    /\ gs' = IF g0.resolved
             THEN [g0 EXCEPT !.last = sleep_state', !.again = TRUE]
             ELSE [g0 EXCEPT !.resolved = TRUE, !.first = sleep_state', !.last = sleep_state',
                             !.props0 = g0.props, !.probes0 = g0.probes]

\* GsCheck without the test of the cached value
GsCheck_NoCache(c) ==
    /\ caller[c].pc = "gs_check"
    /\ sleep_state' = sleep_state
    /\ caller' = [caller EXCEPT ![c].pc = "gs_prop"]
    /\ gs' = gs
    /\ UNCHANGED <<env_vars, autosuspend_ops, autosuspend_enabled, autosuspend_inited,
                   wc_vars, es_vars, active, lockout, obs>>

\* "if (!sleep_state[0])"
GsCheck(c) ==
    /\ caller[c].pc = "gs_check"
    /\ sleep_state' = sleep_state
    /\ IF Len(sleep_state) > 0
       THEN GsReturn(c, gs)
       ELSE caller' = [caller EXCEPT ![c].pc = "gs_prop"] /\ gs' = gs
    /\ UNCHANGED <<env_vars, autosuspend_ops, autosuspend_enabled, autosuspend_inited,
                   wc_vars, es_vars, active, lockout, obs>>

\* "property_get("sleep.state", sleep_state, NULL) > 0"
GsProp(c) ==
    /\ caller[c].pc = "gs_prop"
    /\ gs.props < MaxReads
    /\ sleep_state' = PropertyGet(prop_sleep_state, S_empty)
    /\ IF Len(sleep_state') > 0
       THEN GsReturn(c, [gs EXCEPT !.props = gs.props + 1])
       ELSE caller' = [caller EXCEPT ![c].pc = "gs_probe"]
            /\ gs' = [gs EXCEPT !.props = gs.props + 1]
    /\ UNCHANGED <<env_vars, autosuspend_ops, autosuspend_enabled, autosuspend_inited,
                   wc_vars, es_vars, active, lockout, obs>>

\* "else if (sleep_state_available(default_sleep_state)) ... else ..."
GsProbe(c) ==
    /\ caller[c].pc = "gs_probe"
    /\ gs.probes < MaxReads
    /\ \E g \in StackGarbage :
        sleep_state' = IF sleep_state_available(default_sleep_state, g)
                       THEN Strncpy(default_sleep_state, PROPERTY_VALUE_MAX)
                       ELSE Strncpy(fallback_sleep_state, PROPERTY_VALUE_MAX)
    /\ GsReturn(c, [gs EXCEPT !.probes = gs.probes + 1])
    /\ UNCHANGED <<env_vars, autosuspend_ops, autosuspend_enabled, autosuspend_inited,
                   wc_vars, es_vars, active, lockout, obs>>

\* the property "sleep.state" is set, changed or cleared between two calls
SetProperty(v) ==
    /\ \A c \in AllCallers : caller[c].pc = "idle"
    /\ prop_sleep_state' = v
    /\ UNCHANGED <<env_cfg, power_state_node, power_state_text, kcount, k_req, k_fb,
                   ctl_vars, wc_vars, es_vars, call_vars, ghost_vars>>

\* what /sys/power/state offers changes between two calls
KernelStates(node, text) ==
    /\ \A c \in AllCallers : caller[c].pc = "idle"
    /\ power_state_node' = node
    /\ power_state_text' = text
    /\ UNCHANGED <<env_cfg, prop_sleep_state, kcount, k_req, k_fb,
                   ctl_vars, wc_vars, es_vars, call_vars, ghost_vars>>

SleepProps == {S_empty, S_freeze, S_disk}
SleepTexts == {T_freeze_mem, T_freeze}

\* one thread calls get_sleep_state() again and again while the property and the
\* kernel's list change
InitSleep ==
    /\ prop_earlysuspend = S_empty
    /\ prop_sleep_state \in SleepProps
    /\ power_state_node \in BOOLEAN
    /\ power_state_read = TRUE
    /\ power_buttons = 0
    /\ prop_doubleclick = FALSE
    /\ power_state_text \in SleepTexts
    /\ fb_sleep_node = TRUE
    /\ fb_wake_node = TRUE
    /\ wakeup_count_node = TRUE
    /\ uinput_node = TRUE
    /\ KernelInit
    /\ ProgramInit
    /\ active = {"c1"}

GetSleepState(c) ==
    \/ GsCall(c)
    \/ GsCheck(c)
    \/ GsProp(c)
    \/ GsProbe(c)

NextSleep ==
    \/ \E c \in AllCallers : GetSleepState(c)
    \/ \E v \in SleepProps : SetProperty(v)
    \/ \E node \in BOOLEAN, text \in SleepTexts : KernelStates(node, text)

SpecSleep == InitSleep /\ [][NextSleep]_vars

\* --------------------------- get_sleep_state called by two threads at once
\* a caller inside get_sleep_state: the string it is copying into sleep_state,
\* how many bytes of it are stored, and what the buffer held when it returned
GsCaller(pc, src, idx, got) ==
    [IdleCaller EXCEPT !.pc = pc, !.op = "get_sleep_state"]
    @@ [src |-> src, idx |-> idx, got |-> got]

RcCall(c) ==
    /\ c \in active
    /\ caller[c].pc = "idle"
    /\ caller' = [caller EXCEPT ![c] = GsCaller("rc_check", S_empty, 0, S_empty)]
    /\ UNCHANGED <<env_vars, ctl_vars, wc_vars, es_vars, active, ghost_vars>>

\* "if (!sleep_state[0])" and, when the byte is set, "return sleep_state": the
\* caller gets the buffer as it is
RcCheck(c) ==
    /\ caller[c].pc = "rc_check"
    /\ caller' = [caller EXCEPT ![c] =
                     IF Len(sleep_state) > 0 THEN GsCaller("idle", S_empty, 0, sleep_state)
                     ELSE GsCaller("rc_prop", S_empty, 0, S_empty)]
    /\ UNCHANGED <<env_vars, ctl_vars, wc_vars, es_vars, active, ghost_vars>>

\* property_get("sleep.state", sleep_state, NULL) finds the property set or not
RcProp(c) ==
    /\ caller[c].pc = "rc_prop"
    /\ LET v == PropertyGet(prop_sleep_state, S_empty)
       IN caller' = [caller EXCEPT ![c] =
                        IF Len(v) > 0 THEN GsCaller("rc_copy", v, 0, S_empty)
                        ELSE GsCaller("rc_probe", S_empty, 0, S_empty)]
    /\ UNCHANGED <<env_vars, ctl_vars, wc_vars, es_vars, active, ghost_vars>>

\* sleep_state_available(default_sleep_state) chooses what strncpy will copy
RcProbe(c) ==
    /\ caller[c].pc = "rc_probe"
    /\ \E g \in StackGarbage :
        caller' = [caller EXCEPT ![c] =
                      GsCaller("rc_copy",
                               IF sleep_state_available(default_sleep_state, g)
                               THEN Strncpy(default_sleep_state, PROPERTY_VALUE_MAX)
                               ELSE Strncpy(fallback_sleep_state, PROPERTY_VALUE_MAX),
                               0, S_empty)]
    /\ UNCHANGED <<env_vars, ctl_vars, wc_vars, es_vars, active, ghost_vars>>

\* property_get / strncpy store the next byte in the zeroed static buffer (the
\* callers copy the same string here, so the buffer holds the longest prefix
\* stored so far); after the last byte the call returns sleep_state
RcCopy(c) ==
    /\ caller[c].pc = "rc_copy"
    /\ LET src == caller[c].src
           n == caller[c].idx + 1
       IN /\ sleep_state' = IF n > Len(sleep_state) THEN SubSeq(src, 1, n) ELSE sleep_state
          /\ caller' = [caller EXCEPT ![c] =
                           IF n = Len(src) THEN GsCaller("idle", S_empty, 0, sleep_state')
                           ELSE GsCaller("rc_copy", src, n, S_empty)]
    /\ UNCHANGED <<env_vars, autosuspend_ops, autosuspend_enabled, autosuspend_inited,
                   wc_vars, es_vars, active, ghost_vars>>

\* two threads call get_sleep_state() while the property and the kernel's list
\* stay as they are; the kernel offers "mem"
InitSleepRace ==
    /\ prop_earlysuspend = S_empty
    /\ prop_sleep_state \in SleepProps
    /\ power_state_node = TRUE
    /\ power_state_read = TRUE
    /\ power_buttons = 0
    /\ prop_doubleclick = FALSE
    /\ power_state_text = T_freeze_mem
    /\ fb_sleep_node = TRUE
    /\ fb_wake_node = TRUE
    /\ wakeup_count_node = TRUE
    /\ uinput_node = TRUE
    /\ KernelInit
    /\ ProgramInit
    /\ active = AllCallers

NextSleepRace ==
    \E c \in AllCallers :
        \/ RcCall(c)
        \/ RcCheck(c)
        \/ RcProp(c)
        \/ RcProbe(c)
        \/ RcCopy(c)

SpecSleepRace == InitSleepRace /\ [][NextSleepRace]_vars

\* ------------------------------------------------ the power-button thread
\* init_android_power_button() has just created the virtual input device and
\* the power-button thread, on a device with any number of power buttons, with
\* the double-click property set or not
InitPower ==
    /\ prop_earlysuspend = S_0
    /\ prop_sleep_state = S_empty
    /\ power_state_node = TRUE
    /\ power_state_read = TRUE
    /\ power_state_text = T_freeze_mem
    /\ fb_sleep_node = TRUE
    /\ fb_wake_node = TRUE
    /\ wakeup_count_node = TRUE
    /\ uinput_node = TRUE
    /\ power_buttons \in 0..MaxButtons
    /\ prop_doubleclick \in BOOLEAN
    /\ KernelInit
    /\ StaticsInit
    /\ uinput_fd = 3
    /\ powerbtnd_started = TRUE
    /\ pb = NewPowerBtnd
    /\ active = {"c1"}

PowerButtonThread ==
    \/ PbOpen
    \/ \E ev \in PbInputs : PbRead(ev)
    \/ PbTimeout
    \/ PbPollError

NextPower == PowerButtonThread

SpecPower == InitPower /\ [][NextPower]_vars

\* ------------------------------------------------------ two calling threads
\* two threads call enable()/disable() with nothing between them but the
\* statements of autosuspend.c, on a device that selects the wakeup-count
\* backend and has no /dev/uinput
InitRace ==
    /\ prop_earlysuspend = S_0
    /\ prop_sleep_state = S_empty
    /\ power_state_node = TRUE
    /\ power_state_read = TRUE
    /\ power_state_text = T_freeze_mem
    /\ fb_sleep_node = TRUE
    /\ fb_wake_node = TRUE
    /\ wakeup_count_node = TRUE
    /\ uinput_node = FALSE
    /\ power_buttons = 0
    /\ prop_doubleclick = FALSE
    /\ KernelInit
    /\ ProgramInit
    /\ active = AllCallers

\* autosuspend_init up to its test of autosuspend_ops at line 49: the property,
\* autosuspend_earlysuspend_init() when the flag is '1', and the test
InitProbe(c) ==
    /\ caller[c].pc = "init_run"
    /\ \E es_thr_ok \in BOOLEAN :
        LET ranEs == EarlySuspendFlag /\ earlysuspend_init_ops # "NULL"
            startEs == ranEs /\ start_earlysuspend_thread(es_thr_ok)
        IN  /\ (ranEs /\ fb_sleep_node /\ fb_wake_node) => k_fb = "awake"
            /\ autosuspend_ops' = first_probe_ops
            /\ autosuspend_inited' = (autosuspend_inited \/ first_probe_ops # "NULL")
            /\ es_pc' = IF startEs THEN "wait_sleep" ELSE es_pc
            /\ wait_for_earlysuspend' = (wait_for_earlysuspend \/ startEs)
            /\ caller' = [caller EXCEPT ![c].pc = IF first_probe_ops # "NULL" THEN "check"
                                                  ELSE "init_wc"]
    /\ UNCHANGED <<env_vars, autosuspend_enabled, sleep_state, wc_vars,
                   earlysuspend_state, active, ghost_vars>>

\* autosuspend_init from line 61 on: autosuspend_wakeup_count_init(), the
\* assignment of its result, and the return
InitWc(c) ==
    /\ caller[c].pc = "init_wc"
    /\ \E sem_ok \in BOOLEAN, thr_ok \in BOOLEAN :
        LET ops == wakeup_count_init_ops(sem_ok, thr_ok)
            semInit == power_state_node /\ wakeup_count_node /\ sem_ok
        IN  /\ autosuspend_ops' = ops
            /\ autosuspend_inited' = (autosuspend_inited \/ ops # "NULL")
            \* init_android_power_button()
            /\ uinput_fd' = IF uinput_fd < 0 /\ uinput_node THEN 3 ELSE uinput_fd
            /\ powerbtnd_started' = (powerbtnd_started \/ (uinput_fd < 0 /\ uinput_node))
            /\ pb' = IF uinput_fd < 0 /\ uinput_node THEN NewPowerBtnd ELSE pb
            /\ suspend_lockout' = IF semInit THEN sem_init(0) ELSE suspend_lockout
            \* pthread_create(&suspend_thread, ...): st follows the thread created first
            /\ st' = IF ops = "wakeup_count" /\ st.pc = "none"
                     THEN [pc |-> "usleep", wakeup_count |-> S_empty, success |-> TRUE]
                     ELSE st
            /\ obs' = [obs EXCEPT !.threads = IF ops = "wakeup_count" THEN @ + 1 ELSE @]
            /\ caller' = after_init(c, ops)
    /\ UNCHANGED <<env_vars, autosuspend_enabled, sleep_state, wakeup_func, cyc, pbl,
                   es_vars, active, lockout, gs>>

\* autosuspend_enable / autosuspend_disable of a thread that runs beside another:
\* autosuspend_init in its two parts
RacingController(c) ==
    \/ \E op \in {"enable", "disable"} : Call(c, op)
    \/ InitCheck(c)
    \/ InitProbe(c)
    \/ InitWc(c)
    \/ FlagCheck(c)
    \/ SetFlag(c)

\* the permits the semaphore is followed up to
MaxPermits == 2

\* the behaviours are followed up to the creation of a second suspend thread and
\* while the semaphore holds no more than MaxPermits
NextRace ==
    /\ obs.threads <= 1
    /\ suspend_lockout <= MaxPermits
    /\ \/ \E c \in AllCallers : RacingController(c)
       \/ \E c \in AllCallers : WakeupCountBackend(c)
       \/ SuspendThread

SpecRace == InitRace /\ [][NextRace]_vars

\* -------------------------------------------------------------- fairness
\* What the scheduling gives: a thread that can run its next statement does run
\* it, the blocking write to /sys/power/state returns, and a caller blocked in
\* sem_wait whose semaphore is posted again and again gets a permit (the suspend
\* thread sleeps 100 ms between its sem_post and its next sem_wait).
Fairness ==
    /\ WF_vars(Delay)
    /\ WF_vars(Commit \/ StateWrite \/ StateWriteReturn \/ Release)
    /\ \A c \in AllCallers :
        /\ WF_vars(InitCheck(c) \/ InitRun(c) \/ FlagCheck(c) \/ SetFlag(c))
        /\ SF_vars(WcDisable(c))

FairSpec == Init /\ [][Next]_vars /\ Fairness

\* ... and, for the suspend thread's way to the sleep-state write: the read of
\* wakeup_count returns (with whatever result), and a sem_wait whose semaphore
\* holds a permit that no one else takes returns.
CycleFairness ==
    /\ Fairness
    /\ WF_vars(ArmRead)
    /\ WF_vars(GateWait)

FairCycleSpec == Init /\ [][Next]_vars /\ CycleFairness

\* ------------------------------------- two calling threads, early suspend
\* a device that selects the early-suspend backend and has both wait_for_fb
\* nodes; one thread makes the first call, a second one calls once
\* autosuspend_init has returned
InitWaiters ==
    /\ prop_earlysuspend = S_1
    /\ prop_sleep_state = S_empty
    /\ power_state_node = TRUE
    /\ power_state_read = TRUE
    /\ power_state_text = T_freeze_mem
    /\ fb_sleep_node = TRUE
    /\ fb_wake_node = TRUE
    /\ wakeup_count_node = TRUE
    /\ uinput_node = FALSE
    /\ power_buttons = 0
    /\ prop_doubleclick = FALSE
    /\ KernelInit
    /\ ProgramInit
    /\ active = {"c1"}

\* a second thread of the process starts to call enable()/disable()
SecondCaller ==
    /\ autosuspend_inited
    /\ active = {"c1"}
    /\ active' = AllCallers
    /\ UNCHANGED <<env_vars, ctl_vars, wc_vars, es_vars, caller, ghost_vars>>

\* the callers, the monitor thread whose reads of the wait_for_fb nodes do not
\* fail, and the kernel
NextWaiters ==
    \/ \E c \in AllCallers : Controller(c) \/ EarlySuspendBackend(c)
    \/ SecondCaller
    \/ EsRead
    \/ EsSet
    \/ KernelFb

\* a thread that can run its next statement does run it, the kernel follows the
\* state written last, and a read of a wait_for_fb node whose event happened
\* returns; nothing makes a thread call again, and nothing makes
\* pthread_cond_wait return without a signal
WaitFairness ==
    /\ \A c \in AllCallers :
        /\ WF_vars(InitCheck(c) \/ InitRun(c) \/ FlagCheck(c) \/ SetFlag(c))
        /\ WF_vars(EsEnable(c) \/ EsDisable(c) \/ EsWait(c))
    /\ WF_vars(EsRead)
    /\ WF_vars(EsSet)
    /\ WF_vars(KernelFb)

FairWaitSpec == InitWaiters /\ [][NextWaiters]_vars /\ WaitFairness

\* ---------------------------------------------------------------- properties
\* the suspend thread holds a permit: after its sem_wait, before its sem_post
HoldingPcs == {"commit", "state_write", "in_state_write", "sem_post"}
Kinds(log) == {log[i][1] : i \in 1..Len(log)}
HasEvent(log, e) == \E i \in 1..Len(log) : log[i] = e
IsCallback(e) == e[1] = "callback"
Rejected(log) == HasEvent(log, <<"commit", "rejected", "">>)
WroteOk(log) == HasEvent(log, <<"state_write", "ok", "">>)
\* the thread finished a cycle that went through the gate
CycleDone == st.pc = "usleep" /\ Len(cyc) > 0 /\ cyc[Len(cyc)] = <<"sem_post", "", "">>

C2_Step ==
    /\ (/\ st.pc = "commit"
        /\ st'.pc # "commit"
        /\ st.wakeup_count # KernelShowCount(kcount))
       => (st'.pc = "sem_post" /\ Rejected(cyc'))
    /\ Rejected(cyc')
       => /\ "state_write" \notin Kinds(cyc')
          /\ "key" \notin Kinds(cyc')
          /\ st'.pc \in {"sem_post", "usleep"}

C2_RejectedCommitSkipsSuspend == [][C2_Step]_vars

\* a finished cycle whose commit was rejected, on a device with the virtual keyboard
C2_Witness == CycleDone /\ Rejected(cyc) /\ uinput_fd >= 0

C4_Step ==
    /\ (st.pc = "in_state_write" /\ st'.pc # "in_state_write" /\ st'.success /\ uinput_fd >= 0)
       => cyc' = << cyc[1], <<"commit", "ok", "">>, <<"state_write", "begin", "">>,
                    <<"state_write", "ok", "">>,
                    <<"key", "KEY_WAKEUP", "1">>, <<"key", "KEY_WAKEUP", "0">> >>
                 \o (IF wakeup_func # "NULL"
                     THEN << <<"callback", wakeup_func, "true">> >> ELSE <<>>)
    /\ (WroteOk(cyc) /\ st.pc = "sem_post")
       => \/ st' = st /\ cyc' = cyc
          \/ /\ st'.pc = "usleep"
             /\ cyc' = Append(cyc, <<"sem_post", "", "">>)
             /\ suspend_lockout' = suspend_lockout + 1

BlockedDisable(c) ==
    /\ autosuspend_ops = "wakeup_count"
    /\ caller[c].op = "disable"
    /\ caller[c].pc = "backend"
    /\ st.pc \in HoldingPcs

\* C5 as claimed: such a disable() does not return while the thread holds the
\* permit, and it returns in the end.
C5_Original ==
    /\ [][\A c \in AllCallers : BlockedDisable(c) => caller'[c].pc = "backend"]_vars
    /\ \A c \in AllCallers : BlockedDisable(c) ~> (caller[c].pc = "idle")

\* C5: such a disable() does not return 0 while the thread holds the permit: it
\* stays in sem_wait or, its sem_wait interrupted, returns -1 at once with
\* autosuspend_enabled still set; and it returns in the end.
C5_DisableWaitsForRelease ==
    /\ [][\A c \in AllCallers :
            BlockedDisable(c)
            => \/ caller'[c].pc = "backend"
               \/ /\ caller'[c].pc = "idle"
                  /\ caller'[c].ret = -1
                  /\ autosuspend_enabled']_vars
    /\ \A c \in AllCallers : BlockedDisable(c) ~> (caller[c].pc = "idle")

\* a disable() waits while the thread is inside the write that suspends the device
C5_Witness == BlockedDisable("c1") /\ st.pc = "in_state_write"

\* the call of c has returned, having reached the test of autosuspend_enabled
Returned(c, op) ==
    /\ c \in active
    /\ caller[c].pc = "idle"
    /\ caller[c].op = op
    /\ caller[c].checked

\* C6: an autosuspend_enable() that found autosuspend_enabled set returned 0 and
\* called no backend; one that found it clear called the backend's enable() once,
\* returned its status, and autosuspend_enabled is set iff that status was 0.
C6_EnableContract ==
    /\ \A c \in AllCallers : caller[c].becalls <= 1
    /\ \A c \in AllCallers :
        Returned(c, "enable")
        => IF caller[c].seen
           THEN caller[c].ret = 0 /\ caller[c].becalls = 0 /\ autosuspend_enabled
           ELSE /\ caller[c].becalls = 1
                /\ caller[c].ret = caller[c].beret
                /\ autosuspend_enabled <=> (caller[c].beret = 0)

\* an enable() came back with the backend's error and the engine is still disabled
C6_Witness ==
    /\ Returned("c1", "enable")
    /\ ~caller["c1"].seen
    /\ caller["c1"].ret = -1
    /\ ~autosuspend_enabled

\* C7: an autosuspend_disable() that found autosuspend_enabled clear returned 0
\* and called no backend; one that found it set called the backend's disable()
\* once, returned its status, and autosuspend_enabled is clear iff that status
\* was 0.
C7_DisableContract ==
    /\ \A c \in AllCallers : caller[c].becalls <= 1
    /\ \A c \in AllCallers :
        Returned(c, "disable")
        => IF ~caller[c].seen
           THEN caller[c].ret = 0 /\ caller[c].becalls = 0 /\ ~autosuspend_enabled
           ELSE /\ caller[c].becalls = 1
                /\ caller[c].ret = caller[c].beret
                /\ ~autosuspend_enabled <=> (caller[c].beret = 0)

\* a disable() came back with the backend's error and the engine is still enabled
C7_Witness ==
    /\ Returned("c1", "disable")
    /\ caller["c1"].seen
    /\ caller["c1"].ret = -1
    /\ autosuspend_enabled

ListsMem(node, text) == node /\ Strstr(text, S_mem)

\* C9 as claimed: the first get_sleep_state() returns the property if it is set,
\* else "mem" if the kernel lists it, else "freeze".
C9_Original ==
    gs.resolved
    => /\ gs.first = IF Len(gs.prop0) > 0 THEN gs.prop0
                     ELSE IF ListsMem(gs.node0, gs.text0) THEN S_mem
                     ELSE S_freeze
       /\ Len(gs.first) > 0

\* C10: once a get_sleep_state() has returned, every later call returns that same
\* value and reads neither the property nor /sys/power/state again, whatever
\* became of them.
C10_ResolvedOnce ==
    gs.resolved
    => /\ gs.last = gs.first
       /\ sleep_state = gs.first
       /\ gs.props = gs.props0
       /\ gs.probes = gs.probes0

\* a later call returned after the property had changed
C10_Witness ==
    /\ gs.again
    /\ gs.prop1 # gs.prop0
    /\ caller["c1"].pc = "idle"
    /\ prop_sleep_state # gs.first

\* C11: the registered callback is the first one passed to set_wakeup_callback,
\* whatever was passed later, and every callback the suspend thread called in its
\* cycle is that one.
C11_FirstCallbackKept ==
    /\ wakeup_func = obs.first_cb
    /\ \A i \in 1..Len(cyc) : IsCallback(cyc[i]) => cyc[i][2] = obs.first_cb

\* a later set_wakeup_callback with another function was turned down and the
\* suspend thread called the first one
C11_Witness ==
    /\ obs.ignored
    /\ wakeup_func = "cbA"
    /\ HasEvent(cyc, <<"callback", "cbA", "true">>)

\* C13: on a device with no input device named "Power Button" the power-button
\* thread opens none, never polls, sends no key and returns; a step of that
\* thread changes nothing the suspend thread reads or writes.
C13_NoPowerButton ==
    /\ [](power_buttons = 0
           => /\ pbl = <<>>
              /\ pb.cnt = 0
              /\ pb.pc \in {"none", "open", "exited"})
    /\ [][(pb.pc # "none" /\ pb' # pb)
           => /\ pb'.pc = "exited"
              /\ UNCHANGED <<st, cyc, suspend_lockout, wakeup_func, uinput_fd, kcount,
                             k_req, sleep_state, ctl_vars, call_vars>>]_vars

\* the power-button thread has returned and the suspend thread finished a cycle
\* that suspended the device and sent KEY_WAKEUP
C13_Witness ==
    /\ power_buttons = 0
    /\ pb.pc = "exited"
    /\ CycleDone
    /\ WroteOk(cyc)
    /\ HasEvent(cyc, <<"key", "KEY_WAKEUP", "1">>)

\* C14: once autosuspend_inited is set it stays set, no call runs the probing
\* of autosuspend_init again, nothing a backend initializer creates is created
\* again, autosuspend_ops keeps its value, and only the selected backend ever
\* acts: with early suspend there is no suspend thread and no permit, with
\* wakeup count no monitor thread and no write of "on" or the sleep state by a
\* caller.
C14_InitOnce ==
    /\ [][autosuspend_inited
           => /\ autosuspend_inited'
              /\ autosuspend_ops' = autosuspend_ops
              /\ \A c \in AllCallers : caller'[c].pc # "init_run"
              /\ uinput_fd' = uinput_fd
              /\ powerbtnd_started' = powerbtnd_started
              /\ wait_for_earlysuspend' = wait_for_earlysuspend
              /\ (es_pc = "none") = (es_pc' = "none")
              /\ (st.pc = "none") = (st'.pc = "none")]_vars
    /\ [](autosuspend_inited
           => /\ autosuspend_ops \in {"earlysuspend", "wakeup_count"}
              /\ autosuspend_ops = "earlysuspend"
                 => (st.pc = "none" /\ suspend_lockout = 0 /\ obs.net = 0)
              /\ autosuspend_ops = "wakeup_count"
                 => (es_pc = "none" /\ ~wait_for_earlysuspend /\ k_req = "on"))

\* after a successful enable(), a later disable() went to the same backend
C14_Witness ==
    /\ autosuspend_inited
    /\ Returned("c1", "disable")
    /\ caller["c1"].seen
    /\ caller["c1"].becalls = 1
    /\ caller["c1"].ret = 0

\* C15: while no backend is selected, a caller that has come back from
\* autosuspend_enable() or autosuspend_disable() got -1, never reached the test
\* of autosuspend_enabled, called no backend operation, and autosuspend_enabled
\* is as it was (clear); no backend thread runs and no semaphore permit exists.
C15_NoBackend ==
    autosuspend_ops = "NULL"
    => /\ ~autosuspend_inited
       /\ ~autosuspend_enabled
       /\ st.pc = "none" /\ es_pc = "none" /\ suspend_lockout = 0
       /\ \A c \in AllCallers :
            /\ caller[c].becalls = 0
            /\ caller[c].pc \in {"idle", "init", "init_run"}
            /\ (caller[c].pc = "idle" /\ caller[c].op \in {"enable", "disable"})
               => (caller[c].ret = -1 /\ ~caller[c].checked)

\* an enable() came back with -1 after the wakeup-count initializer had opened
\* the virtual input device and then failed
C15_Witness ==
    /\ autosuspend_ops = "NULL"
    /\ caller["c1"].pc = "idle"
    /\ caller["c1"].op = "enable"
    /\ caller["c1"].ret = -1
    /\ uinput_fd >= 0

\* C16: with the wakeup-count backend selected and no enable() having posted a
\* permit yet, the semaphore is 0 and the suspend thread is in its delay, its
\* arm read or its sem_wait: its iteration holds no commit, no sleep-state
\* write, no key and no callback.
C16_GateClosedUntilEnable ==
    (autosuspend_ops = "wakeup_count" /\ ~obs.posted)
    => /\ suspend_lockout = 0
       /\ st.pc \in {"usleep", "read", "sem_wait"}
       /\ Kinds(cyc) \subseteq {"arm", "arm_failed"}

\* the thread waits at the gate after a disable() that came before any enable()
C16_Witness ==
    /\ autosuspend_ops = "wakeup_count"
    /\ ~obs.posted
    /\ st.pc = "sem_wait"
    /\ Returned("c1", "disable")
    /\ wakeup_func # "NULL"

\* the permit the suspend thread holds: 1 between its sem_wait and its sem_post
Held == IF st.pc \in HoldingPcs THEN 1 ELSE 0

\* C17: the semaphore's value is the posts of the backend's enable() less the
\* permits taken by its disable() less the permit the suspend thread holds, and
\* is never negative; a backend enable() adds one permit, a backend disable()
\* that returns 0 takes one (one whose sem_wait fails takes none), and the
\* suspend thread outside its gate-to-release section has added and taken none.
C17_SemaphoreAccounting ==
    /\ [](suspend_lockout = obs.net - Held /\ suspend_lockout >= 0)
    /\ [][\A c \in AllCallers :
            (/\ autosuspend_ops = "wakeup_count"
             /\ caller[c].pc = "backend"
             /\ caller'[c].pc # "backend")
            => /\ caller'[c].becalls = caller[c].becalls + 1
               /\ suspend_lockout' - suspend_lockout =
                      IF caller[c].op = "enable" THEN 1
                      ELSE IF caller'[c].beret = 0 THEN -1 ELSE 0]_vars

\* the one permit an enable() posted is held by the thread inside the write that
\* suspends the device
C17_Witness ==
    /\ obs.net = 1
    /\ suspend_lockout = 0
    /\ st.pc = "in_state_write"

IsPost(e) == e[1] = "sem_post"
PostsIn(log) == Len(SelectSeq(log, IsPost))

\* C18: while the thread holds the permit its iteration has no sem_post yet; the
\* step that ends the holding is one sem_post, adds one permit and leads to the
\* delay of the next iteration; an iteration that went through the gate ends
\* with exactly one sem_post, whether the commit was rejected, the sleep-state
\* write failed or all succeeded; and a thread holding the permit does reach
\* that release.
C18_ReleaseOnce ==
    /\ [](/\ PostsIn(cyc) <= 1
          /\ (st.pc \in HoldingPcs) => (PostsIn(cyc) = 0)
          /\ (st.pc \notin HoldingPcs /\ "commit" \in Kinds(cyc))
             => (PostsIn(cyc) = 1 /\ IsPost(cyc[Len(cyc)]) /\ st.pc = "usleep"))
    /\ [][(st.pc \in HoldingPcs /\ st'.pc \notin HoldingPcs)
           => /\ st.pc = "sem_post"
              /\ st'.pc = "usleep"
              /\ suspend_lockout' = suspend_lockout + 1]_vars
    /\ (st.pc \in HoldingPcs) ~> (st.pc = "usleep" /\ PostsIn(cyc) = 1)

\* the permit is back after an iteration whose sleep-state write failed
C18_Witness ==
    /\ CycleDone
    /\ HasEvent(cyc, <<"state_write", "failed", "">>)
    /\ suspend_lockout = 1

\* C19: a read of wakeup_count that fails or returns nothing ends the
\* iteration there: the thread is back at the delay, and the semaphore, the
\* kernel's counter and power state, the callback, the keys and every caller are
\* as they were; the iteration holds nothing but the failed read.
C19_FailedArmAborts ==
    /\ [][(st.pc = "read" /\ st' # st /\ cyc'[1][1] = "arm_failed")
           => /\ st' = [st EXCEPT !.pc = "usleep"]
              /\ UNCHANGED <<suspend_lockout, kcount, k_req, wakeup_func, uinput_fd,
                             sleep_state, ctl_vars, call_vars, pb_vars, ghost_vars>>]_vars
    /\ [](("arm_failed" \in Kinds(cyc))
           => (Len(cyc) = 1 /\ cyc[1][2] \in {"error", "empty"} /\ st.pc = "usleep"))

\* an empty read of wakeup_count while a permit is there for the taking
C19_Witness ==
    /\ cyc = << <<"arm_failed", "empty", "">> >>
    /\ st.pc = "usleep"
    /\ suspend_lockout = 1
    /\ wakeup_func # "NULL"

\* the statements of suspend_thread_func's loop
LoopPcs == {"usleep", "read", "sem_wait", "commit", "state_write", "in_state_write",
            "sem_post"}

\* C20: once created the suspend thread stays in its loop; whatever ends an
\* iteration (a failed or empty arm read, a failed sem_wait, the sem_post after
\* a rejected commit, a failed sleep-state write or a success) leads to the
\* delay at the top of the loop, the arm read is entered from that delay only,
\* and the delay is followed by the next arm read.
C20_LoopContinues ==
    /\ [][st.pc # "none"
           => /\ st'.pc \in LoopPcs
              /\ (st'.pc = "read" /\ st.pc # "read") => (st.pc = "usleep")
              /\ (st.pc = "read" /\ st'.pc # "read") => (st'.pc \in {"usleep", "sem_wait"})
              /\ (st.pc = "sem_wait" /\ st'.pc # "sem_wait")
                 => (st'.pc \in {"usleep", "commit"})
              /\ (st.pc = "sem_post" /\ st'.pc # "sem_post") => (st'.pc = "usleep")]_vars
    /\ (st.pc = "usleep") ~> (st.pc = "read")

\* the thread is back at the delay after its sem_wait failed
C20_Witness ==
    /\ st.pc = "usleep"
    /\ cyc = << <<"arm", wakeup_func, "">> >>
    /\ suspend_lockout = 0

\* the power-button thread's log: a press of KEY_POWER it sent starts at i
IsPress(i) == i \in 1..Len(pbl) /\ pbl[i] = <<"key", "KEY_POWER", "1">>
\* ... as a short press: the release follows at once
ShortPress(i) == IsPress(i) /\ i < Len(pbl) /\ pbl[i + 1] = <<"key", "KEY_POWER", "0">>
\* the first press sent after position i, 0 if there is none
NextPress(i) ==
    IF \E k \in (i + 1)..Len(pbl) : IsPress(k)
    THEN CHOOSE k \in (i + 1)..Len(pbl) : IsPress(k) /\ \A m \in (i + 1)..(k - 1) : ~IsPress(m)
    ELSE 0
\* in double-click mode, the release of the power key at i opened the window of
\* one second instead of sending a key
OpensWindow(i) ==
    /\ pb.doubleclick
    /\ i \in 1..Len(pbl)
    /\ pbl[i] = <<"in", "power_release", "">>
    /\ ~IsPress(i + 1)

\* C12: in double-click mode, when a resume event follows the release that
\* opened the window and no key was sent in between, the next key sent is a short
\* press, never a long one; when the window passes with nothing read, the
\* thread sends one short press, the window is closed, and no second press
\* follows from that timeout.
C12_DoubleClickWindow ==
    /\ \A i \in 1..Len(pbl) : \A j \in (i + 1)..Len(pbl) :
          (/\ OpensWindow(i)
           /\ pbl[j] = <<"in", "resume", "">>
           /\ \A m \in i..j : ~IsPress(m))
          => (NextPress(j) # 0 => ShortPress(NextPress(j)))
    /\ \A i \in 1..Len(pbl) :
          (OpensWindow(i) /\ i < Len(pbl) /\ pbl[i + 1] = <<"timeout", "", "">>)
          => /\ ShortPress(i + 2)
             /\ ~IsPress(i + 4)
             /\ (Len(pbl) = i + 3) => (pb.timeout = -1 /\ pb.longpress)

\* a release opened the window, a resume event followed, and the window then
\* passed: one short press was sent
C12_Witness ==
    /\ pb.doubleclick
    /\ pbl = << <<"in", "power_release", "">>, <<"in", "resume", "">>,
                <<"timeout", "", "">>,
                <<"key", "KEY_POWER", "1">>, <<"key", "KEY_POWER", "0">> >>

\* a step of the power-button thread that reads the release of the power key
ReleaseRead ==
    /\ pb.pc = "poll"
    /\ Len(pbl') > Len(pbl)
    /\ pbl'[Len(pbl) + 1] = <<"in", "power_release", "">>
\* the events the thread wrote to the virtual device in this step
SentNow == SubSeq(pbl', Len(pbl) + 2, Len(pbl'))
\* a press of KEY_POWER held for two seconds, and one released at once
LongPressEvents ==
    << <<"key", "KEY_POWER", "1">>, <<"sleep", "2", "">>, <<"key", "KEY_POWER", "0">> >>
ShortPressEvents == << <<"key", "KEY_POWER", "1">>, <<"key", "KEY_POWER", "0">> >>

\* C29 as the specification states it: on every release of the power key, when
\* double-click mode is off or no window is pending, a press is sent at once,
\* long iff the long-press flag is set.
C29_Original ==
    [][(ReleaseRead /\ (~pb.doubleclick \/ pb.timeout <= 0))
       => (SentNow = IF pb.longpress THEN LongPressEvents ELSE ShortPressEvents)]_vars

\* C29: on every release of the power key, when double-click mode is off or a
\* window IS pending (timeout > 0), a press of the power key is sent at once, long
\* iff the long-press flag is set, and the window is closed; in double-click mode
\* with no window pending nothing is sent and the window of one second opens.
C29_ReleaseSendsKey ==
    [][ReleaseRead
       => IF ~pb.doubleclick \/ pb.timeout > 0
          THEN /\ SentNow = IF pb.longpress THEN LongPressEvents ELSE ShortPressEvents
               /\ pb'.timeout = -1
          ELSE /\ SentNow = <<>>
               /\ pb'.timeout = 1000]_vars

\* in double-click mode a first release opened the window and the second release,
\* read while the window was pending, sent the (long) press
C29_Witness ==
    /\ pb.doubleclick
    /\ pb.timeout = -1
    /\ pbl = << <<"in", "power_release", "">>, <<"in", "power_release", "">> >>
             \o LongPressEvents

\* C30 as the specification states it: once a press has been sent in response to
\* a release of the power key, the long-press flag is clear.
C30_Original ==
    [][(ReleaseRead /\ SentNow # <<>>) => ~pb'.longpress]_vars

\* C30: a press sent in response to a release of the power key leaves the
\* long-press flag as it was; the flag changes only when a resume event is read,
\* which clears it, or when the window passes, which sets it; so the press sent
\* for the next release is as long as this one unless one of the two happens in
\* between.
C30_FlagKeptAcrossRelease ==
    [][/\ (ReleaseRead => pb'.longpress = pb.longpress)
       /\ (pb'.longpress # pb.longpress
            => /\ Len(pbl') > Len(pbl)
               /\ \/ pbl'[Len(pbl) + 1] = <<"in", "resume", "">> /\ ~pb'.longpress
                  \/ pbl'[Len(pbl) + 1] = <<"timeout", "", "">> /\ pb'.longpress)]_vars

\* with double-click mode off, two releases in a row each sent a long press and
\* the flag is still set
C30_Witness ==
    /\ ~pb.doubleclick
    /\ pb.longpress
    /\ pbl = << <<"in", "power_release", "">> >> \o LongPressEvents
             \o << <<"in", "power_release", "">> >> \o LongPressEvents

\* the call of c is inside the early-suspend backend
InEsBackend(c, op) ==
    /\ autosuspend_ops = "earlysuspend"
    /\ caller[c].op = op
\* c leaves the early-suspend backend with status 0 in this step
EsReturnsZero(c, op) ==
    /\ InEsBackend(c, op)
    /\ caller[c].pc # "set"
    /\ caller'[c].pc = "set"

\* C24: earlysuspend_state is ON until the monitor thread runs; it changes only in
\* a step of the monitor thread, to MEM after a read of wait_for_fb_sleep has
\* returned and to ON after a read of wait_for_fb_wake has returned; every write
\* of the thread changes the value, so MEM and ON alternate; the callers of
\* enable()/disable() take no part in such a step beyond leaving pthread_cond_wait.
C24_OnlyMonitorWrites ==
    /\ [](es_pc = "none" => earlysuspend_state = "ON")
    /\ [](es_pc = "set_mem" => (earlysuspend_state = "ON" /\ k_fb = "asleep"))
    /\ [](es_pc = "set_on" => (earlysuspend_state = "MEM" /\ k_fb = "awake"))
    /\ [][/\ (earlysuspend_state' # earlysuspend_state)
             => (/\ \/ es_pc = "set_mem" /\ earlysuspend_state' = "MEM"
                    \/ es_pc = "set_on" /\ earlysuspend_state' = "ON"
                 /\ \A c \in AllCallers :
                       \/ caller'[c] = caller[c]
                       \/ /\ caller[c].pc = "es_cond"
                          /\ caller'[c] = [caller[c] EXCEPT !.pc = "es_wait"])
          /\ (es_pc \in {"set_mem", "set_on"} /\ es_pc' # es_pc)
             => (earlysuspend_state' # earlysuspend_state)
          /\ (es_pc' = "set_mem" /\ es_pc # "set_mem") => (es_pc = "wait_sleep")
          /\ (es_pc' = "set_on" /\ es_pc # "set_on") => (es_pc = "wait_wake")]_vars

\* an enable() and then a disable() went through the backend with waiting: the
\* state went ON, MEM, ON and the thread waits for the next sleep
C24_Witness ==
    /\ Returned("c1", "disable")
    /\ caller["c1"].becalls = 1
    /\ wait_for_earlysuspend
    /\ earlysuspend_state = "ON"
    /\ es_pc = "wait_sleep"
    /\ ~autosuspend_enabled

\* C25: when the write of the sleep state fails in the early-suspend enable(),
\* the call returns a negative status in that very step, without entering the wait
\* loop on the condition variable, and autosuspend_enabled stays clear.
C25_FailedWriteReturnsError ==
    /\ [](\A c \in AllCallers :
            (Returned(c, "enable") /\ InEsBackend(c, "enable") /\ caller[c].beret < 0)
            => (caller[c].ret < 0 /\ ~autosuspend_enabled))
    /\ [][\A c \in AllCallers :
            (/\ InEsBackend(c, "enable")
             /\ caller[c].pc = "backend"
             /\ caller'[c].pc # "backend"
             /\ k_req' = k_req
             /\ k_req # "sleep")
            => (/\ caller'[c].pc = "idle"
                /\ caller'[c].ret < 0
                /\ caller'[c].ret = caller'[c].beret
                /\ ~autosuspend_enabled')]_vars

\* with the monitor thread running, an enable() came back with the error of its
\* write; nothing was requested of the kernel and nothing waited
C25_Witness ==
    /\ Returned("c1", "enable")
    /\ InEsBackend("c1", "enable")
    /\ wait_for_earlysuspend
    /\ caller["c1"].beret = -1
    /\ caller["c1"].ret = -1
    /\ k_req = "on"
    /\ earlysuspend_state = "ON"
    /\ ~autosuspend_enabled

\* C26: with waiting, the early-suspend enable() returns 0 only from its test of
\* earlysuspend_state under the mutex, in a step where the state is MEM, after its
\* write of the sleep state succeeded; it never returns 0 from a test that saw ON.
C26_EnableObservesMem ==
    [][\A c \in AllCallers :
         (EsReturnsZero(c, "enable") /\ wait_for_earlysuspend)
         => (/\ caller[c].pc = "es_wait"
             /\ earlysuspend_state = "MEM"
             /\ caller[c].becalls = 1
             /\ caller[c].beret = 0
             /\ k_req = "sleep")]_vars

\* an enable() that waited has returned 0 and the engine is enabled
C26_Witness ==
    /\ Returned("c1", "enable")
    /\ InEsBackend("c1", "enable")
    /\ wait_for_earlysuspend
    /\ caller["c1"].becalls = 1
    /\ caller["c1"].ret = 0
    /\ earlysuspend_state = "MEM"
    /\ autosuspend_enabled

\* C27: the early-suspend disable() returns 0 whether or not its write of "on"
\* succeeded; with waiting it returns only from a test that saw ON; the
\* controller then clears autosuspend_enabled.
C27_DisableReturnsZero ==
    /\ [](\A c \in AllCallers :
            (InEsBackend(c, "disable") /\ caller[c].becalls = 1)
            => (/\ caller[c].beret = 0
                /\ Returned(c, "disable") => (caller[c].ret = 0 /\ ~autosuspend_enabled)))
    /\ [][\A c \in AllCallers :
            (EsReturnsZero(c, "disable") /\ wait_for_earlysuspend)
            => (caller[c].pc = "es_wait" /\ earlysuspend_state = "ON")]_vars

\* without the monitor thread, a disable() whose write failed (the kernel still
\* holds the request to sleep) has returned 0 and the engine is disabled
C27_Witness ==
    /\ Returned("c1", "disable")
    /\ InEsBackend("c1", "disable")
    /\ caller["c1"].becalls = 1
    /\ caller["c1"].ret = 0
    /\ ~wait_for_earlysuspend
    /\ k_req = "sleep"
    /\ ~autosuspend_enabled

\* C28: the monitor thread returns only from one of its two blocking reads, in a
\* step that writes nothing and signals nobody; once it has returned it stays
\* so, earlysuspend_state keeps its value, and no step sets the state and
\* signals again; callers can still call.
C28_MonitorExit ==
    /\ [][/\ (es_pc' = "exited" /\ es_pc # "exited")
             => (/\ es_pc \in {"wait_sleep", "wait_wake"}
                 /\ earlysuspend_state' = earlysuspend_state
                 /\ caller' = caller)
          /\ (es_pc = "exited")
             => (es_pc' = "exited" /\ earlysuspend_state' = earlysuspend_state)]_vars
    /\ [](\A c \in active :
            (es_pc = "exited" /\ caller[c].pc = "idle") => ENABLED Call(c, "enable"))

\* the thread returned from its read of wait_for_fb_wake with the state at MEM,
\* and a disable() called since is waiting for an ON that no one will set
C28_Witness ==
    /\ es_pc = "exited"
    /\ earlysuspend_state = "MEM"
    /\ InEsBackend("c1", "disable")
    /\ caller["c1"].pc = "es_cond"

\* the latest read of wakeup_count failed or returned nothing
ArmFailed == Len(cyc) > 0 /\ cyc[1][1] = "arm_failed"
\* from this state on the wakeup-count engine is enabled
EngineEnabled == autosuspend_ops = "wakeup_count" /\ autosuspend_enabled

\* C21: with the wakeup-count backend, if from some point on the engine stays
\* enabled, no read of wakeup_count fails and no commit is rejected, then the
\* suspend thread writes the sleep state again and again; and no step of the
\* suspend thread, a failed cycle included, changes autosuspend_enabled.
C21_EventuallySuspends ==
    /\ (<>[](EngineEnabled /\ ~ArmFailed /\ ~Rejected(cyc)))
       => []<>(st.pc = "in_state_write")
    /\ [][(st' # st) => (autosuspend_enabled' = autosuspend_enabled)]_vars

\* the engine is enabled, every wakeup the kernel will record has been recorded,
\* and the suspend thread is inside its write of the sleep state with the token
\* it read after the last of them
C21_Witness ==
    /\ EngineEnabled
    /\ caller["c1"].pc = "idle"
    /\ kcount = BootCount + MaxWakeups
    /\ st.wakeup_count = KernelShowCount(kcount)
    /\ st.pc = "in_state_write"

\* C22: whatever the interleaving of the calling threads, first calls that both
\* run autosuspend_init included, pthread_create starts at most one suspend
\* thread (and so at most one thread is between its commit and its release).
C22_Original == obs.threads <= 1

\* what one thread calling get_sleep_state() alone resolves on this device
SequentialResolution ==
    IF Len(PropertyGet(prop_sleep_state, S_empty)) > 0
    THEN PropertyGet(prop_sleep_state, S_empty)
    ELSE IF sleep_state_available(default_sleep_state, S_empty)
         THEN Strncpy(default_sleep_state, PROPERTY_VALUE_MAX)
         ELSE Strncpy(fallback_sleep_state, PROPERTY_VALUE_MAX)

\* C23: when several threads make the first call of get_sleep_state() at the
\* same time with the property and the kernel's list fixed, every call returns
\* the string one thread alone would resolve, never an empty or partly written
\* one.
C23_Original ==
    \A c \in active :
        (caller[c].op = "get_sleep_state" /\ caller[c].pc = "idle")
        => (caller[c].got = SequentialResolution)

\* the power-button thread's log: what was read or happened at position i
IsRelease(i) == i \in 1..Len(pbl) /\ pbl[i] = <<"in", "power_release", "">>
IsResume(i) == i \in 1..Len(pbl) /\ pbl[i] = <<"in", "resume", "">>
IsTimeout(i) == i \in 1..Len(pbl) /\ pbl[i] = <<"timeout", "", "">>
\* the press sent at k is held for two seconds
LongPressAt(k) == IsPress(k) /\ k < Len(pbl) /\ pbl[k + 1] = <<"sleep", "2", "">>
\* the event at m opened a window: a resume event, or a release that sent no key
Arms(m) == IsResume(m) \/ (IsRelease(m) /\ ~IsPress(m + 1))
\* steps of the power-button thread: poll returned 0; a resume event was read
TimeoutStep ==
    /\ pb.pc = "poll"
    /\ Len(pbl') > Len(pbl)
    /\ pbl'[Len(pbl) + 1] = <<"timeout", "", "">>
ResumeRead ==
    /\ pb.pc = "poll"
    /\ Len(pbl') > Len(pbl)
    /\ pbl'[Len(pbl) + 1] = <<"in", "resume", "">>

\* C31: in double-click mode with no window pending (timeout -1), the read of a
\* release of the power key sends no key and sets the poll timeout to 1000 ms.
C31_FirstReleaseArmsWindow ==
    [][(ReleaseRead /\ pb.doubleclick /\ pb.timeout <= 0)
       => (SentNow = <<>> /\ pb'.timeout = 1000 /\ pb'.longpress = pb.longpress)]_vars

\* in double-click mode the first release was read: nothing sent, window open
C31_Witness ==
    /\ pb.doubleclick
    /\ pb.pc = "poll"
    /\ pb.timeout = 1000
    /\ pbl = << <<"in", "power_release", "">> >>

\* C32: poll returns 0 only while a window is pending; the thread then sends
\* exactly one short press and sets the timeout back to -1, with which poll
\* cannot time out; between two timeouts there is an event that opened a window.
C32_TimeoutSendsOneShortPress ==
    /\ [][TimeoutStep
          => (pb.timeout > 0 /\ SentNow = ShortPressEvents /\ pb'.timeout = -1)]_vars
    /\ [](pb.timeout = -1 => ~ENABLED PbTimeout)
    /\ [](\A i \in 1..Len(pbl) : \A j \in (i + 1)..Len(pbl) :
            (IsTimeout(i) /\ IsTimeout(j)) => (\E m \in (i + 1)..(j - 1) : Arms(m)))

\* a release opened the window and the window passed: one short press, no window
C32_Witness ==
    /\ pb.doubleclick
    /\ pb.timeout = -1
    /\ pbl = << <<"in", "power_release", "">>, <<"timeout", "", "">> >> \o ShortPressEvents

\* C33: the read of a SYN_REPORT with a value sends no key, clears the long-press
\* flag and sets the poll timeout to 1000 ms; the next press sent after it, by
\* the timeout or by a release, is short.
C33_ResumeMakesNextPressShort ==
    /\ [][ResumeRead
          => (SentNow = <<>> /\ ~pb'.longpress /\ pb'.timeout = 1000)]_vars
    /\ [](\A i \in 1..Len(pbl) :
            (IsResume(i) /\ NextPress(i) # 0) => ShortPress(NextPress(i)))

\* with double-click mode off, a resume event and then a release within the
\* window: the press sent for the release is short
C33_Witness ==
    /\ ~pb.doubleclick
    /\ ~pb.longpress
    /\ pbl = << <<"in", "resume", "">>, <<"in", "power_release", "">> >> \o ShortPressEvents

\* C39 as the specification states it: before every press the thread sends,
\* more releases of the power key have been read than presses sent.
C39_Original ==
    \A k \in 1..Len(pbl) :
        IsPress(k)
        => (Cardinality({i \in 1..(k - 1) : IsRelease(i)})
            > Cardinality({i \in 1..(k - 1) : IsPress(i)}))

\* C39: every press the thread sends follows at once either the read of a
\* release of the power key, or a timeout of a window that a release or a resume
\* event opened with no press sent since.
C39_PressAnswersReleaseOrWindow ==
    \A k \in 1..Len(pbl) :
        IsPress(k)
        => \/ IsRelease(k - 1)
           \/ /\ IsTimeout(k - 1)
              /\ \E m \in 1..(k - 2) : Arms(m) /\ \A n \in m..(k - 1) : ~IsPress(n)

\* in double-click mode a resume event with no release before it, then the
\* timeout of its window: a press was sent
C39_Witness ==
    /\ pb.doubleclick
    /\ pbl = << <<"in", "resume", "">>, <<"timeout", "", "">> >> \o ShortPressEvents

\* C40: a press held for two seconds is sent only for a release of the power
\* key, and only when every resume event read so far was followed by a timeout
\* before that release; a press sent by a timeout is short.
C40_LongPressOnlyWithoutResume ==
    /\ \A k \in 1..Len(pbl) :
          LongPressAt(k)
          => /\ IsRelease(k - 1)
             /\ \A m \in 1..(k - 1) :
                   IsResume(m) => (\E t \in (m + 1)..(k - 1) : IsTimeout(t))
    /\ \A k \in 1..Len(pbl) : (IsPress(k) /\ IsTimeout(k - 1)) => ShortPress(k)

\* a resume event, the timeout of its window with a short press, and then a
\* release, for which the press is long again
C40_Witness ==
    /\ ~pb.doubleclick
    /\ pbl = << <<"in", "resume", "">>, <<"timeout", "", "">> >> \o ShortPressEvents
             \o << <<"in", "power_release", "">> >> \o LongPressEvents

\* the cycle's write of the sleep state failed
WriteFailed(log) == HasEvent(log, <<"state_write", "failed", "">>)

\* C38: when the write to the sleep-state node fails in a cycle whose commit was
\* accepted, the thread sends no KEY_WAKEUP, calls the callback registered at that
\* moment (if any) once, with false, and nothing else, and then posts the
\* semaphore, which ends the cycle.
C38_Step ==
    /\ (st.pc = "in_state_write" /\ st'.pc # "in_state_write" /\ ~st'.success)
       => /\ st'.pc = "sem_post"
          /\ HasEvent(cyc, <<"commit", "ok", "">>)
          /\ cyc' = Append(cyc, <<"state_write", "failed", "">>)
                    \o (IF wakeup_func # "NULL"
                        THEN << <<"callback", wakeup_func, "false">> >> ELSE <<>>)
    /\ (WriteFailed(cyc) /\ st.pc = "sem_post")
       => \/ st' = st /\ cyc' = cyc
          \/ /\ st'.pc = "usleep"
             /\ cyc' = Append(cyc, <<"sem_post", "", "">>)
             /\ suspend_lockout' = suspend_lockout + 1

C38_FailedSleepWrite ==
    /\ [][C38_Step]_vars
    /\ [](WriteFailed(cyc)
          => /\ \A i \in 1..Len(cyc) : cyc[i][1] # "key"
             /\ Cardinality({i \in 1..Len(cyc) : IsCallback(cyc[i])}) <= 1)

\* on a device with the virtual keyboard, a finished cycle whose sleep-state
\* write failed: the callback was told false and no key was sent
C38_Witness ==
    /\ CycleDone
    /\ WriteFailed(cyc)
    /\ uinput_fd >= 0
    /\ wakeup_func # "NULL"
    /\ cyc = << cyc[1], <<"commit", "ok", "">>, <<"state_write", "begin", "">>,
                <<"state_write", "failed", "">>, <<"callback", wakeup_func, "false">>,
                <<"sem_post", "", "">> >>

\* the pcs of a caller inside the wait loop of the early-suspend backend
EsWaitPcs == {"es_wait", "es_cond"}

\* C37: when a wait_for_fb node is absent at the backend's initialization, or
\* pthread_create fails, there is no monitor thread and wait_for_earlysuspend
\* stays clear; with it clear no caller is ever in the wait loop, and enable()
\* and disable() leave the backend in the step of their write.
C37_NoWaitWithoutMonitor ==
    /\ []((autosuspend_ops = "earlysuspend" /\ ~(fb_sleep_node /\ fb_wake_node))
          => (es_pc = "none" /\ ~wait_for_earlysuspend))
    /\ [](wait_for_earlysuspend <=> es_pc # "none")
    /\ [](~wait_for_earlysuspend => \A c \in AllCallers : caller[c].pc \notin EsWaitPcs)
    /\ [][\A c \in AllCallers :
            (/\ autosuspend_ops = "earlysuspend"
             /\ ~wait_for_earlysuspend
             /\ caller[c].pc = "backend"
             /\ caller'[c] # caller[c])
            => (/\ caller'[c].becalls = 1
                /\ \/ caller'[c].pc = "set" /\ caller'[c].beret = 0
                   \/ /\ caller[c].op = "enable"
                      /\ caller'[c].pc = "idle"
                      /\ caller'[c].beret < 0)]_vars

\* with wait_for_fb_sleep absent, an enable() has returned 0 and the engine is
\* enabled although earlysuspend_state was never MEM
C37_Witness ==
    /\ autosuspend_ops = "earlysuspend"
    /\ ~fb_sleep_node
    /\ fb_wake_node
    /\ Returned("c1", "enable")
    /\ caller["c1"].becalls = 1
    /\ caller["c1"].ret = 0
    /\ earlysuspend_state = "ON"
    /\ autosuspend_enabled

\* the permits in the semaphore plus the one the suspend thread holds
Permits == suspend_lockout + Held
\* no call of enable()/disable() is in flight
NoCallInFlight == \A c \in active : caller[c].pc = "idle"

\* C34: with the wakeup-count backend and one thread calling enable() and
\* disable() one after the other, between two calls the permits in the semaphore
\* plus the one held by the suspend thread are 1 when autosuspend_enabled is set
\* and 0 when it is clear; an enable() that finds the engine enabled posts nothing.
C34_OnePermitIffEnabled ==
    /\ []((autosuspend_ops = "wakeup_count" /\ NoCallInFlight)
          => (Permits = IF autosuspend_enabled THEN 1 ELSE 0))
    /\ [][\A c \in AllCallers :
            (/\ autosuspend_ops = "wakeup_count"
             /\ caller[c].op = "enable"
             /\ caller[c].pc = "check"
             /\ autosuspend_enabled
             /\ caller'[c] # caller[c])
            => (caller'[c].pc = "idle" /\ suspend_lockout' = suspend_lockout)]_vars

\* an enable() called with the engine enabled has returned; there is still one
\* permit, here in the suspend thread's hands
C34_Witness ==
    /\ autosuspend_ops = "wakeup_count"
    /\ Returned("c1", "enable")
    /\ caller["c1"].seen
    /\ caller["c1"].becalls = 0
    /\ autosuspend_enabled
    /\ Held = 1
    /\ suspend_lockout = 0

\* C35: with two threads calling enable() and disable() on the wakeup-count
\* backend, whenever no call is in flight the permits in the semaphore plus the
\* one held by the suspend thread are 1 when autosuspend_enabled is set and 0
\* when it is clear. Stated for the behaviours where autosuspend_init has run
\* once, so that one semaphore initialisation and one suspend thread exist.
C35_Original ==
    (/\ autosuspend_ops = "wakeup_count"
     /\ obs.threads = 1
     /\ NoCallInFlight)
    => (Permits = IF autosuspend_enabled THEN 1 ELSE 0)

\* C36: early suspend with the monitor thread running and two calling threads:
\* an enable() that wrote the sleep state, blocked in pthread_cond_wait, and
\* whose state the monitor has since set to MEM, returns from its wait.
C36_Original ==
    \A c \in AllCallers :
        (/\ caller[c].op = "enable"
         /\ caller[c].pc = "es_cond"
         /\ earlysuspend_state = "MEM")
        ~> (caller[c].pc \notin EsWaitPcs)

====
